---- MODULE Spec2Model ----
(***************************************************************************)
(* Asynchronous image-processing job pipeline of ImageEditingAPI:          *)
(*   App/api/main.go     submission, status query, download                *)
(*   App/worker/main.go  worker loop (the PostgreSQL-backed version,       *)
(*                       lines 267-613 of the file)                        *)
(* A Go string is modelled as a sequence of one-character strings, so that *)
(* fmt.Sprintf, strings.Split, strconv.Atoi and strconv.ParseUint are      *)
(* computed character by character as the code computes them.  Fixed text  *)
(* of diagnostics (which is never split or parsed) is kept as one element. *)
(***************************************************************************)
EXTENDS Integers, Sequences, FiniteSets, TLC

(***************************************************************************)
(* Bounds of the model.                                                    *)
(***************************************************************************)
\* number of job ids uuid.New() can hand out in one run
MaxJobs == 2
\* number of worker processes popping the same queue
NumWorkers == 2
\* number of environment failures (store, queue, disk, crash) in one run
MaxFaults == 1
\* number of failures up to which a pop of the queue may still fail under PopSpec
MaxPopFaults == 3
\* largest crop coordinate tried on applyCrop alone (the smallest is -1)
MaxCoord == 3
MaxDim == 3

(***************************************************************************)
(* Strings.                                                                *)
(***************************************************************************)
Digits == <<"0", "1", "2", "3", "4", "5", "6", "7", "8", "9">>

UpperLetters == <<"A", "B", "C", "D", "E", "F", "G", "H", "I", "J", "K", "L", "M",
                  "N", "O", "P", "Q", "R", "S", "T", "U", "V", "W", "X", "Y", "Z">>

LowerLetters == <<"a", "b", "c", "d", "e", "f", "g", "h", "i", "j", "k", "l", "m",
                  "n", "o", "p", "q", "r", "s", "t", "u", "v", "w", "x", "y", "z">>

DigitSet == {Digits[i] : i \in 1..10}
UpperSet == {UpperLetters[k] : k \in 1..26}

\* the lower-case letter of each capital
LowerOf == [c \in UpperSet |-> LowerLetters[CHOOSE k \in 1..26 : UpperLetters[k] = c]]

IsDigit(c) == c \in DigitSet

DigitVal(c) == (CHOOSE i \in 1..10 : Digits[i] = c) - 1

\* a character outside ASCII is written as the name of its code point; these two are
\* the capitals whose lower case is an ASCII letter
Rune_I_dot == "U+0130"
Rune_Kelvin == "U+212A"

\* strings.ToLower: unicode.ToLower of every character
ToLower(s) ==
    [i \in 1..Len(s) |->
        IF s[i] \in UpperSet THEN LowerOf[s[i]]
        ELSE IF s[i] = Rune_I_dot THEN "i"
        ELSE IF s[i] = Rune_Kelvin THEN "k"
        ELSE s[i]]

\* strings.Split(s, sep) for a one-character separator: n separators give n+1
\* parts, the k-th being the text between the (k-1)-th and the k-th separator
Split(s, sep) ==
    CHOOSE parts \in
        {[k \in 1..(Len(at) + 1) |->
             SubSeq(s, IF k = 1 THEN 1 ELSE at[k - 1] + 1,
                       IF k = Len(at) + 1 THEN Len(s) ELSE at[k] - 1)] :
         at \in {SelectSeq([i \in 1..Len(s) |-> i], LAMBDA i : s[i] = sep)}} : TRUE

\* value of a sequence of decimal digits
RECURSIVE DecimalValue(_)
DecimalValue(s) ==
    IF Len(s) = 0 THEN 0
    ELSE 10 * DecimalValue(SubSeq(s, 1, Len(s) - 1)) + DigitVal(s[Len(s)])

\* a sequence of digits without its leading zeros
RECURSIVE Significant(_)
Significant(s) == IF Len(s) > 0 /\ s[1] = "0" THEN Significant(Tail(s)) ELSE s

\* a <= b for decimal numerals without leading zeros
NumeralLE(a, b) ==
    \/ Len(a) < Len(b)
    \/ /\ Len(a) = Len(b)
       /\ \/ a = b
          \/ \E i \in 1..Len(a) :
               /\ \A j \in 1..(i - 1) : a[j] = b[j]
               /\ DigitVal(a[i]) < DigitVal(b[i])

\* the numerals of 2^32 - 1, 2^63 - 1 and 2^63
MaxUint32 == <<"4", "2", "9", "4", "9", "6", "7", "2", "9", "5">>
MaxInt64 == <<"9", "2", "2", "3", "3", "7", "2", "0", "3", "6", "8", "5", "4", "7", "7", "5", "8", "0", "7">>
MinInt64Magnitude == <<"9", "2", "2", "3", "3", "7", "2", "0", "3", "6", "8", "5", "4", "7", "7", "5", "8", "0", "8">>

\* a * d + c for a numeral a, a digit d and a carry c below 10
RECURSIVE NumeralTimes(_, _, _)
NumeralTimes(a, d, c) ==
    IF a = <<>> THEN (IF c = 0 THEN <<>> ELSE <<Digits[c + 1]>>)
    ELSE CHOOSE r \in {NumeralTimes(rest, d, t \div 10) \o <<Digits[(t % 10) + 1]>> :
                          rest \in {SubSeq(a, 1, Len(a) - 1)},
                          t \in {DigitVal(a[Len(a)]) * d + c}} : TRUE

\* a + b + c for numerals a and b and a carry c
RECURSIVE NumeralPlus(_, _, _)
NumeralPlus(a, b, c) ==
    IF a = <<>> /\ b = <<>> THEN (IF c = 0 THEN <<>> ELSE <<Digits[c + 1]>>)
    ELSE CHOOSE r \in {NumeralPlus(ra, rb, t \div 10) \o <<Digits[(t % 10) + 1]>> :
                          ra \in {SubSeq(a, 1, Len(a) - 1)},
                          rb \in {SubSeq(b, 1, Len(b) - 1)},
                          t \in {(IF a = <<>> THEN 0 ELSE DigitVal(a[Len(a)]))
                                   + (IF b = <<>> THEN 0 ELSE DigitVal(b[Len(b)])) + c}} : TRUE

\* a + b for numerals, without leading zeros
NumeralAdd(a, b) ==
    CHOOSE r \in {Significant(NumeralPlus(x, y, 0)) : x \in {a}, y \in {b}} : TRUE

\* a * b for numerals, without leading zeros (the empty numeral is zero)
RECURSIVE NumeralMul(_, _)
NumeralMul(a, b) ==
    IF b = <<>> THEN <<>>
    ELSE CHOOSE r \in {NumeralAdd(NumeralMul(a, rest) \o <<"0">>, NumeralTimes(a, d, 0)) :
                          rest \in {SubSeq(b, 1, Len(b) - 1)},
                          d \in {DigitVal(b[Len(b)])}} : TRUE

\* strconv.ParseUint(s, 10, 32): digits only, at least one, value at most 2^32 - 1.
\* The value is kept as its numeral without leading zeros, the empty numeral for
\* zero: 2^32 - 1 is beyond the integers at hand
ParseUint(s) ==
    IF Len(s) = 0 \/ \E i \in 1..Len(s) : ~IsDigit(s[i])
    THEN [ok |-> FALSE, val |-> <<>>]
    ELSE IF ~NumeralLE(Significant(s), MaxUint32)
         THEN [ok |-> FALSE, val |-> <<>>]
         ELSE [ok |-> TRUE, val |-> Significant(s)]

\* strconv.Atoi(s): an optional sign, then digits only, at least one, in int64
Atoi(s) ==
    LET signed   == Len(s) > 0 /\ s[1] \in {"+", "-"}
        negative == signed /\ s[1] = "-"
        body     == IF signed THEN SubSeq(s, 2, Len(s)) ELSE s
    IN  IF Len(body) = 0 \/ \E i \in 1..Len(body) : ~IsDigit(body[i])
        THEN [ok |-> FALSE, val |-> 0]
        ELSE IF ~NumeralLE(Significant(body), IF negative THEN MinInt64Magnitude ELSE MaxInt64)
             THEN [ok |-> FALSE, val |-> 0]
             ELSE [ok |-> TRUE,
                   val |-> IF negative THEN 0 - DecimalValue(body) ELSE DecimalValue(body)]

\* filepath.Base: trailing separators dropped, then the last path element
RECURSIVE Base(_)
Base(p) ==
    IF Len(p) = 0 THEN <<".">>
    ELSE IF p[Len(p)] = "/"
         THEN IF \A i \in 1..Len(p) : p[i] = "/"
              THEN <<"/">>
              ELSE Base(SubSeq(p, 1, Len(p) - 1))
         ELSE IF \A i \in 1..Len(p) : p[i] # "/"
              THEN p
              ELSE LET k == CHOOSE j \in 1..Len(p) :
                                p[j] = "/" /\ \A m \in (j + 1)..Len(p) : p[m] # "/"
                   IN  SubSeq(p, k + 1, Len(p))

\* the constant storagePath, "./storage"
storagePath == <<".", "/", "s", "t", "o", "r", "a", "g", "e">>

\* one element of a path taken by filepath.Clean, kept being what is kept of the
\* elements before it: an empty element and "." are dropped, ".." takes back the
\* element before it, or is dropped at the root, or is kept
CleanElem(kept, e, rooted) ==
    IF e = <<>> \/ e = <<".">> THEN kept
    ELSE IF e = <<".", ".">>
         THEN IF Len(kept) > 0 /\ kept[Len(kept)] # <<".", ".">>
              THEN SubSeq(kept, 1, Len(kept) - 1)
              ELSE IF rooted THEN kept ELSE Append(kept, e)
         ELSE Append(kept, e)

\* what filepath.Clean keeps of the first k elements of a path
RECURSIVE CleanStack(_, _, _)
CleanStack(parts, k, rooted) ==
    IF k = 0 THEN <<>>
    ELSE CHOOSE kept \in {CleanElem(prev, parts[k], rooted) :
                             prev \in {CleanStack(parts, k - 1, rooted)}} : TRUE

\* the elements of a path put together again, a separator between two
RECURSIVE JoinElems(_)
JoinElems(elems) ==
    IF Len(elems) = 0 THEN <<>>
    ELSE IF Len(elems) = 1 THEN elems[1]
    ELSE elems[1] \o <<"/">> \o JoinElems(Tail(elems))

\* the elements filepath.Clean keeps, as a path
CleanPath(kept, rooted) ==
    IF rooted THEN <<"/">> \o JoinElems(kept)
    ELSE IF kept = <<>> THEN <<".">>
    ELSE JoinElems(kept)

\* filepath.Clean
Clean(p) ==
    CHOOSE c \in {CleanPath(kept, Len(p) > 0 /\ p[1] = "/") :
                     kept \in {CleanStack(parts, Len(parts), Len(p) > 0 /\ p[1] = "/") :
                                  parts \in {Split(p, "/")}}} : TRUE

\* filepath.Join(storagePath, name): the non-empty elements joined by a separator,
\* then cleaned
JoinStorage(name) ==
    Clean(IF name = <<>> THEN storagePath ELSE storagePath \o <<"/">> \o name)

\* strconv.Itoa for a natural number
RECURSIVE Itoa(_)
Itoa(n) == IF n < 10 THEN <<Digits[n + 1]>> ELSE Itoa(n \div 10) \o <<Digits[(n % 10) + 1]>>

(***************************************************************************)
(* Images and the transforms of the worker.  An image has bounds           *)
(* min-(min + <<w, h>>) and pix maps each point of the bounds to an opaque *)
(* 8-bit <<r, g, b>>.  The decoders of JPEG and PNG give min = (0,0); the  *)
(* first frame of a GIF has the offset of its image descriptor as min.     *)
(* out is the colour At returns for a point outside the bounds: the zero   *)
(* colour for the RGBA and gray images, the first palette entry for a GIF. *)
(***************************************************************************)
Black == <<0, 0, 0>>

NoImage == [min |-> <<0, 0>>, w |-> 0, h |-> 0, pix |-> <<>>, out |-> Black]

\* img.At(x, y): the colour at a point of the bounds, the image's outside colour
\* elsewhere
At(img, p) == IF p \in DOMAIN img.pix THEN img.pix[p] ELSE img.out

\* color.GrayModel.Convert on an opaque 8-bit colour: RGBA() widens each channel
\* to 16 bits (v * 0x101) and y = (19595*r + 38470*g + 7471*b + 1<<15) >> 24.
\* With S the weighted sum of the 8-bit channels the numerator is 256*S + S + 2^15,
\* and dividing by 256 first keeps every intermediate value within 32 bits.
GrayOf(c) ==
    LET S == 19595 * c[1] + 38470 * c[2] + 7471 * c[3]
        y == (S + ((S + 32768) \div 256)) \div 65536
    IN  <<y, y, y>>

\* image.NewGray(bounds) filled point by point
applyGrayscale(img) ==
    [min |-> img.min, w |-> img.w, h |-> img.h,
     pix |-> [p \in DOMAIN img.pix |-> GrayOf(At(img, p))], out |-> Black]

\* pixels of an image resized with resize.Lanczos3: the interpolation is the
\* library's; the result is kept as a term over the source pixels
Lanczos3(img, width, height) == <<"Lanczos3", img.pix>>

\* the most pixels an image of four bytes each can have: make and image.NewRGBA
\* panic for a buffer of more than 2^48 bytes (linux/amd64), so beyond 2^46 pixels
MaxPixels == <<"7", "0", "3", "6", "8", "7", "4", "4", "1", "7", "7", "6", "6", "4">>

\* whether resize.Resize(width, height, img, resize.Lanczos3) panics when it makes
\* the buffer of its result: not for the size the source has, which it returns as it
\* is, and not for a source without pixels.  No recover() is in the worker, so the
\* panic ends the process.  width and height are numerals, neither zero
ResizePanics(width, height, img) ==
    /\ ~(NumeralLE(width, Itoa(img.w)) /\ NumeralLE(Itoa(img.w), width)
          /\ NumeralLE(height, Itoa(img.h)) /\ NumeralLE(Itoa(img.h), height))
    /\ img.w > 0 /\ img.h > 0
    /\ \E pixels \in {NumeralMul(width, height)} : ~NumeralLE(pixels, MaxPixels)

\* resize.Resize(width, height, img, resize.Lanczos3) when it returns: a zero
\* dimension is taken from the aspect ratio of the source, a request for the size
\* the source has returns the source itself, anything else a new image at the
\* origin.  width and height are numerals
Resize(width, height, img) ==
    LET w == IF width # <<>> THEN DecimalValue(width)
             ELSE IF height = <<>> THEN img.w
             ELSE (7 * img.h + 10 * img.w * DecimalValue(height)) \div (10 * img.h)
        h == IF height # <<>> THEN DecimalValue(height)
             ELSE IF width = <<>> THEN img.h
             ELSE (7 * img.w + 10 * img.h * DecimalValue(width)) \div (10 * img.w)
    IN  IF w = img.w /\ h = img.h
        THEN img
        ELSE [min |-> <<0, 0>>, w |-> w, h |-> h, pix |-> Lanczos3(img, w, h), out |-> Black]

\* applyResize that hands a zero dimension to resize.Resize, which then keeps the
\* aspect ratio of the source
applyResizeKeepsAspect(img, params) ==
    LET parts  == Split(params, "x")
        width  == ParseUint(parts[1])
        height == ParseUint(parts[2])
    IN  IF Len(parts) # 2
        THEN [ok |-> FALSE, panics |-> FALSE, img |-> NoImage,
              err |-> <<"invalid resize parameters: expected 'widthxheight'">>]
        ELSE IF ~width.ok \/ ~height.ok
             THEN [ok |-> FALSE, panics |-> FALSE, img |-> NoImage,
                   err |-> <<"invalid width or height value in resize parameters or value is zero">>]
             ELSE IF ResizePanics(width.val, height.val, img)
                  THEN [ok |-> FALSE, panics |-> TRUE, img |-> NoImage, err |-> <<>>]
                  ELSE [ok |-> TRUE, panics |-> FALSE,
                        img |-> Resize(width.val, height.val, img), err |-> <<>>]

\* lines 416-428; panics says that the call of resize.Resize does not return
applyResize(img, params) ==
    LET parts  == Split(params, "x")
        width  == ParseUint(parts[1])
        height == ParseUint(parts[2])
    IN  IF Len(parts) # 2
        THEN [ok |-> FALSE, panics |-> FALSE, img |-> NoImage,
              err |-> <<"invalid resize parameters: expected 'widthxheight'">>]
        ELSE IF ~width.ok \/ ~height.ok \/ width.val = <<>> \/ height.val = <<>>
             THEN [ok |-> FALSE, panics |-> FALSE, img |-> NoImage,
                   err |-> <<"invalid width or height value in resize parameters or value is zero">>]
             ELSE IF ResizePanics(width.val, height.val, img)
                  THEN [ok |-> FALSE, panics |-> TRUE, img |-> NoImage, err |-> <<>>]
                  ELSE [ok |-> TRUE, panics |-> FALSE,
                        img |-> Resize(width.val, height.val, img), err |-> <<>>]

\* image.Rectangle.String() of the bounds of an image
BoundsString(img) ==
    <<"(">> \o Itoa(img.min[1]) \o <<",">> \o Itoa(img.min[2]) \o <<")", "-", "(">>
        \o Itoa(img.min[1] + img.w) \o <<",">> \o Itoa(img.min[2] + img.h) \o <<")">>

applyCrop(img, params) ==
    LET parts  == Split(params, ",")
        coords == [i \in 1..Len(parts) |-> Atoi(parts[i])]
        bad    == {i \in 1..Len(parts) : ~coords[i].ok}
        first  == CHOOSE i \in bad : \A j \in bad : i <= j
        start_x == coords[1].val
        start_y == coords[2].val
        end_x   == coords[3].val
        end_y   == coords[4].val
    IN  IF Len(parts) # 4
        THEN [ok |-> FALSE, panics |-> FALSE, img |-> NoImage,
              err |-> <<"invalid crop parameters: expected 'startX,startY,endX,endY'">>]
        ELSE IF bad # {}
             THEN [ok |-> FALSE, panics |-> FALSE, img |-> NoImage,
                   err |-> <<"invalid coordinate value in crop parameters: ">> \o parts[first]]
             ELSE IF start_x >= end_x \/ start_y >= end_y \/ start_x < 0 \/ start_y < 0
                        \/ end_x > img.min[1] + img.w \/ end_y > img.min[2] + img.h
                  THEN [ok |-> FALSE, panics |-> FALSE, img |-> NoImage,
                        err |-> <<"crop coordinates are out of bounds or invalid: bounds are ">>
                                    \o BoundsString(img)]
                  ELSE [ok |-> TRUE, panics |-> FALSE,
                        img |-> [min |-> <<0, 0>>, w |-> end_x - start_x, h |-> end_y - start_y,
                                 pix |-> [p \in (0..(end_x - start_x - 1)) \X (0..(end_y - start_y - 1))
                                              |-> At(img, <<start_x + p[1], start_y + p[2]>>)],
                                 out |-> Black],
                        err |-> <<>>]

Str_grayscale == <<"g", "r", "a", "y", "s", "c", "a", "l", "e">>
Str_resize == <<"r", "e", "s", "i", "z", "e">>
Str_crop == <<"c", "r", "o", "p">>

processImage(img, action, params) ==
    IF action = Str_grayscale THEN [ok |-> TRUE, panics |-> FALSE, img |-> applyGrayscale(img), err |-> <<>>]
    ELSE IF action = Str_resize THEN applyResize(img, params)
    ELSE IF action = Str_crop THEN applyCrop(img, params)
    ELSE [ok |-> FALSE, panics |-> FALSE, img |-> NoImage,
          err |-> <<"unknown image processing action: ">> \o action]

(***************************************************************************)
(* State.                                                                  *)
(***************************************************************************)
VARIABLES
    jobs,     \* table jobs of PostgreSQL: job id -> row
    queue,    \* Redis list image_processing_queue, head first
    disk,     \* files of the shared storage directory: path -> content
    api,      \* per call of submitJobHandler: where it is, and its locals
    resp,     \* responses of submitJobHandler so far, in order
    wk,       \* per worker: position in startWorker/processTask and its locals
    calls,    \* history: the calls of updatePGStatus so far and those logged as failed
    pushed,   \* history: the job ids of the messages given to RPush, in order
    popped,   \* history: job id -> number of BLPop that returned a message for it
    faults    \* number of environment failures so far

vars == <<jobs, queue, disk, api, resp, wk, calls, pushed, popped, faults>>

Workers == 1..NumWorkers

\* the ids uuid.New().String() hands out, in order: 36 characters, lower-case
\* hexadecimal digits in groups of 8-4-4-4-12 (version 4, variant 10)
UuidPool == <<"a", "b", "c", "d", "e", "f">>
uuidNew(n) ==
    LET c == UuidPool[n]
    IN  <<c, c, c, c, c, c, c, c, "-", c, c, c, c, "-", "4", c, c, c, "-", "8", c, c, c, "-",
          c, c, c, c, c, c, c, c, c, c, c, c>>

\* sql.NullString
Null == [Valid |-> FALSE, String |-> <<>>]
NotNull(s) == [Valid |-> TRUE, String |-> s]

\* file contents: an upload or output that decodes to img, or bytes that do not decode
Decodable(img) == [decodable |-> TRUE, img |-> img]
Undecodable == [decodable |-> FALSE, img |-> NoImage]

\* jpeg.Encode refuses an image of 1<<16 or more pixels in either direction
jpegEncodes(img) == img.w < 65536 /\ img.h < 65536

\* what jpeg.Encode at quality 90 leaves of an image, as image.Decode reads it back:
\* its size at the origin, lossy pixels, and outside of it the zero YCbCr colour
JpegOf(img) ==
    [min |-> <<0, 0>>, w |-> img.w, h |-> img.h, pix |-> <<"jpeg", img.pix>>,
     out |-> <<0, 135, 0>>]

SourceImage ==
    [min |-> <<0, 0>>, w |-> 2, h |-> 2,
     pix |-> [p \in (0..1) \X (0..1) |-> <<40 * p[1] + 10, 200 - 90 * p[2], 255 * p[1] * p[2]>>],
     out |-> Black]

\* time.Now().Format("150405") at the moment the worker names its output
Str_now == <<"1", "5", "0", "4", "0", "5">>
Str_jpg == <<".", "j", "p", "g">>

\* a run of 252 letters and a run of 211 letters, each kept as one element of a text
Run252 == "aaaaaaaaaaaaaaaaaaaaaaaaaaaaaaaaaaaaaaaaaaaaaaaaaaaaaaaaaaaaaaaaaaaaaaaaaaaaaaaaaaaaaaaaaaaaaaaaaaaaaaaaaaaaaaaaaaaaaaaaaaaaaaaaaaaaaaaaaaaaaaaaaaaaaaaaaaaaaaaaaaaaaaaaaaaaaaaaaaaaaaaaaaaaaaaaaaaaaaaaaaaaaaaaaaaaaaaaaaaaaaaaaaaaaaaaaaaaaaaaaaaaaaaaaaaa"
Run211 == "fffffffffffffffffffffffffffffffffffffffffffffffffffffffffffffffffffffffffffffffffffffffffffffffffffffffffffffffffffffffffffffffffffffffffffffffffffffffffffffffffffffffffffffffffffffffffffffffffffffffffffffffffff"

\* the forms clients post: file name, file bytes, action, params
Forms ==
    { [filename |-> <<"f">>, content |-> Decodable(SourceImage),
       action |-> Str_grayscale, params |-> <<>>],
      [filename |-> <<"f">>, content |-> Decodable(SourceImage),
       action |-> Str_resize, params |-> <<"3", "x", "1">>],
      [filename |-> <<"f">>, content |-> Decodable(SourceImage),
       action |-> Str_resize, params |-> <<"0", "x", "1">>],
      [filename |-> <<"f">>, content |-> Decodable(SourceImage),
       action |-> Str_crop, params |-> <<"1", "0", ",", "1", "0", ",", "5", ",", "5">>],
      [filename |-> <<"f">>, content |-> Undecodable,
       action |-> Str_grayscale, params |-> <<>>],
      [filename |-> <<"f", "|", "g">>, content |-> Decodable(SourceImage),
       action |-> Str_grayscale, params |-> <<>>],
      [filename |-> <<"f">>, content |-> Decodable(SourceImage),
       action |-> <<"C", "r", "o", "p">>, params |-> <<"0", ",", "0", ",", "1", ",", "2">>],
      [filename |-> Str_grayscale \o <<"_">> \o Str_now \o Str_jpg,
       content |-> Decodable(SourceImage), action |-> Str_grayscale, params |-> <<>>],
      [filename |-> <<"f">>, content |-> Decodable(SourceImage),
       action |-> <<"b", "l", "u", "r">>, params |-> <<>>],
      [filename |-> <<"f">>, content |-> Decodable(SourceImage),
       action |-> <<"r", "e", "s", Rune_I_dot, "z", "e">>, params |-> <<"3", "x", "1">>],
      [filename |-> <<"/">>, content |-> Decodable(SourceImage),
       action |-> Str_grayscale, params |-> <<>>],
      [filename |-> <<"f">>, content |-> Decodable(SourceImage),
       action |-> Str_resize, params |-> <<"3", "x", "1", Run252, " ">>],
      [filename |-> <<Run211>>, content |-> Decodable(SourceImage),
       action |-> Str_grayscale, params |-> <<>>],
      [filename |-> <<"f">>, content |-> Decodable(SourceImage),
       action |-> Str_resize, params |-> <<"6", "5", "5", "3", "6", "x", "1">>],
      [filename |-> <<"f">>, content |-> Decodable(SourceImage),
       action |-> Str_resize, params |-> MaxUint32 \o <<"x">> \o MaxUint32] }

\* a POST whose body parses as a multipart form and holds the file "image"
Post(f) ==
    [method |-> "POST", parsed |-> TRUE, image |-> TRUE, filename |-> f.filename,
     content |-> f.content, action |-> f.action, params |-> f.params]

PlainForm ==
    [filename |-> <<"f">>, content |-> Decodable(SourceImage),
     action |-> Str_grayscale, params |-> <<>>]

\* the requests clients make at /job/submit: the posted forms, a request of another
\* method, a body that ParseMultipartForm refuses, a form without the file "image"
Requests ==
    {Post(f) : f \in Forms}
        \cup {[Post(PlainForm) EXCEPT !.method = "GET"],
              [Post(PlainForm) EXCEPT !.parsed = FALSE],
              [Post(PlainForm) EXCEPT !.image = FALSE]}

\* the submissions of a run: its first one is any of Requests, the later ones are of
\* the two plain kinds (a grayscale that succeeds, a crop that is refused)
PlainRequests ==
    {r \in Requests : /\ r.method = "POST" /\ r.parsed /\ r.image
                      /\ r.filename = <<"f">>
                      /\ r.content.decodable
                      /\ r.action \in {Str_grayscale, Str_crop}}

RequestsAt(n) == IF n = 1 THEN Requests ELSE PlainRequests

allowedActions == {Str_grayscale, Str_resize, Str_crop}

\* a call of submitJobHandler: not yet made, or returned
ApiIdle ==
    [pc |-> "idle", jobID |-> <<>>, filePath |-> <<>>, action |-> <<>>, params |-> <<>>,
     file |-> Undecodable]
ApiDone ==
    [pc |-> "done", jobID |-> <<>>, filePath |-> <<>>, action |-> <<>>, params |-> <<>>,
     file |-> Undecodable]

Handlers == 1..MaxJobs

WorkerIdle ==
    [pc |-> "pop", task |-> <<>>, jobID |-> <<>>, inputPath |-> <<>>, action |-> <<>>,
     params |-> <<>>, img |-> NoImage, processErr |-> <<>>, outputPath |-> <<>>,
     failedAt |-> ""]

Init ==
    /\ jobs = <<>>
    /\ queue = <<>>
    /\ disk = <<>>
    /\ api = [h \in Handlers |-> ApiIdle]
    /\ resp = <<>>
    /\ wk = [w \in Workers |-> WorkerIdle]
    /\ calls = {}
    /\ pushed = <<>>
    /\ popped = <<>>
    /\ faults = 0

\* f with key k set to v, whether or not k is in the domain of f
Put(f, k, v) == [x \in DOMAIN f \cup {k} |-> IF x = k THEN v ELSE f[x]]
\* f without key k
Drop(f, k) == [x \in DOMAIN f \ {k} |-> f[x]]
\* the count kept for k in a history of counts
Count(f, k) == IF k \in DOMAIN f THEN f[k] ELSE 0
\* the number of times k stands in a history kept as a sequence
Occurs(q, k) == Cardinality({i \in 1..Len(q) : q[i] = k})

\* an operation of the environment either succeeds or, while the run has failures
\* left, fails
Outcomes == IF faults < MaxFaults THEN {TRUE, FALSE} ELSE {TRUE}
Spend(ok) == faults' = IF ok THEN faults ELSE faults + 1

(***************************************************************************)
(* Job Store.                                                              *)
(***************************************************************************)
\* number of characters of a string: a character standing as the name of its code
\* point counts once, fixed text kept as one element by its length
CharLen(e) == IF e \in {Rune_I_dot, Rune_Kelvin} THEN 1 ELSE Len(e)

\* the number of characters of the first k elements of s: the characters are counted
\* as the pairs of an element and a position in it
Chars(s, k) == Cardinality(UNION {{<<i, j>> : j \in 1..CharLen(s[i])} : i \in 1..k})

\* a value assigned to a column VARCHAR(n): kept when it has at most n characters;
\* cut to n characters when all that exceeds them is spaces; refused otherwise
Varchar(s, n) ==
    IF Chars(s, Len(s)) <= n
    THEN [ok |-> TRUE, val |-> s]
    ELSE LET fit == CHOOSE k \in 0..Len(s) :
                        /\ Chars(s, k) <= n
                        /\ k < Len(s) => Chars(s, k + 1) > n
         IN  IF \A i \in (fit + 1)..Len(s) : s[i] = " "
             THEN [ok |-> TRUE, val |-> SubSeq(s, 1, fit)]
             ELSE [ok |-> FALSE, val |-> <<>>]

HexSet == DigitSet \cup {"a", "b", "c", "d", "e", "f", "A", "B", "C", "D", "E", "F"}
IsHex(c) == c \in HexSet

\* the hexadecimal digits of a text, in order
HexOf(text) == SelectSeq(text, IsHex)

\* whether a text is a uuid as the store reads one: sixteen bytes of two hexadecimal
\* digits each, a hyphen allowed after every second byte but the last, nothing else
UuidScan(text) ==
    /\ Len(HexOf(text)) = 32
    /\ \A i \in 1..Len(text) :
          \/ IsHex(text[i])
          \/ /\ text[i] = "-"
             /\ i > 1
             /\ IsHex(text[i - 1])
             /\ Len(HexOf(SubSeq(text, 1, i - 1))) \in {4, 8, 12, 16, 20, 24, 28}

\* uuid.String(): the 32 digits in lower case, grouped 8-4-4-4-12
UuidString(h) ==
    SubSeq(h, 1, 8) \o <<"-">> \o SubSeq(h, 9, 12) \o <<"-">> \o SubSeq(h, 13, 16)
        \o <<"-">> \o SubSeq(h, 17, 20) \o <<"-">> \o SubSeq(h, 21, 32)

\* a text given for the column id UUID: the value it denotes, in the form
\* uuid.String() writes, or a syntax error; braces around the text are allowed
UuidParse(s) ==
    LET braces == Len(s) > 0 /\ s[1] = "{"
        closed == Len(s) > 1 /\ s[Len(s)] = "}"
    IN  IF braces /\ ~closed
        THEN [ok |-> FALSE, val |-> <<>>]
        ELSE LET text == IF braces THEN SubSeq(s, 2, Len(s) - 1) ELSE s
             IN  IF UuidScan(text)
                 THEN [ok |-> TRUE, val |-> UuidString(ToLower(HexOf(text)))]
                 ELSE [ok |-> FALSE, val |-> <<>>]

\* INSERT INTO jobs (id, status, input_path, action, params): each text as its
\* column keeps it, output_path stays NULL
insertJob(js, jobID, filePath, action, params) ==
    Put(js, jobID, [status |-> "QUEUED", input_path |-> Varchar(filePath, 255).val,
                    output_path |-> Null,
                    action |-> Varchar(action, 50).val, params |-> Varchar(params, 255).val])

\* the INSERT is refused when the id exists (PRIMARY KEY) or a value is refused by
\* its column
insertAccepted(js, jobID, filePath, action, params) ==
    /\ jobID \notin DOMAIN js
    /\ Varchar(filePath, 255).ok
    /\ Varchar(action, 50).ok
    /\ Varchar(params, 255).ok

\* updatePGStatus without its WHERE clause: every row is updated
updatePGStatusNoWhere(js, jobID, status, resultData) ==
    IF UuidParse(jobID).ok /\ Varchar(<<status>>, 20).ok /\ Varchar(resultData, 255).ok
    THEN [id \in DOMAIN js |->
             [js[id] EXCEPT !.status = status,
                            !.output_path = NotNull(Varchar(resultData, 255).val)]]
    ELSE js

\* UPDATE jobs SET status = $1, output_path = $2 WHERE id = $3: no row, no change;
\* a text that is not a uuid or a value its column refuses is an error of Exec,
\* which updatePGStatus logs
updatePGStatus(js, jobID, status, resultData) ==
    CHOOSE after \in
        {IF id.ok /\ Varchar(<<status>>, 20).ok /\ v.ok /\ id.val \in DOMAIN js
         THEN [js EXCEPT ![id.val].status = status, ![id.val].output_path = NotNull(v.val)]
         ELSE js :
         id \in {UuidParse(jobID)}, v \in {Varchar(resultData, 255)}} : TRUE

\* whether the Exec of that UPDATE returns an error, which updatePGStatus logs (line
\* 377): the text of the id is no uuid, or a value is refused by its column
updateRefused(jobID, status, resultData) ==
    ~(UuidParse(jobID).ok /\ Varchar(<<status>>, 20).ok /\ Varchar(resultData, 255).ok)

(***************************************************************************)
(* Submission: submitJobHandler, one step per resource it touches.         *)
(***************************************************************************)
\* fmt.Sprintf("%s|%s|%s|%s", jobID, filePath, action, params)
jobData(jobID, filePath, action, params) ==
    jobID \o <<"|">> \o filePath \o <<"|">> \o action \o <<"|">> \o params

\* the answer to the client; at records the step of the handler that returned and
\* jobID the id it had generated (neither is part of the HTTP response)
Respond(code, jobID, at) == resp' = Append(resp, [code |-> code, jobID |-> jobID, at |-> at])

\* lines 187-226: the checks of the method, the form, the file and the action, the
\* fresh id, and the upload file created empty.  Each request is served by a handler
\* of its own, concurrently with the others; h is the next handler not yet used
SubmitUpload(h, req) ==
    /\ api[h].pc = "idle"
    /\ \A k \in 1..(h - 1) : api[k].pc # "idle"
    /\ IF req.method # "POST" \/ ~req.parsed \/ ~req.image
          \/ ToLower(req.action) \notin allowedActions
       THEN /\ IF req.method # "POST" THEN Respond(405, <<>>, "method")
               ELSE IF ~req.parsed THEN Respond(400, <<>>, "form")
               ELSE IF ~req.image THEN Respond(400, <<>>, "image")
               ELSE Respond(400, <<>>, "action")
            /\ api' = [api EXCEPT ![h] = ApiDone]
            /\ UNCHANGED <<jobs, queue, disk, wk, calls, pushed, popped, faults>>
       ELSE LET jobID    == uuidNew(h)
                filename == jobID \o <<"_">> \o Base(req.filename)
                filePath == JoinStorage(filename)
            IN  \E created \in Outcomes :
                  /\ Spend(created)
                  /\ IF created
                     THEN /\ disk' = Put(disk, filePath, Undecodable)
                          /\ api' = [api EXCEPT ![h] =
                                        [pc |-> "copy", jobID |-> jobID,
                                         filePath |-> filePath, action |-> req.action,
                                         params |-> req.params, file |-> req.content]]
                          /\ UNCHANGED resp
                     ELSE /\ Respond(500, jobID, "create")
                          /\ api' = [api EXCEPT ![h] = ApiDone]
                          /\ UNCHANGED disk
                  /\ UNCHANGED <<jobs, queue, wk, calls, pushed, popped>>

\* lines 229-233: the bytes of the posted file are copied into the upload file, or
\* the client is told 500 and the file stays as far as it was written
SubmitCopy(h) ==
    /\ api[h].pc = "copy"
    /\ \E copied \in Outcomes :
         /\ Spend(copied)
         /\ IF copied
            THEN /\ disk' = Put(disk, api[h].filePath, api[h].file)
                 /\ api' = [api EXCEPT ![h].pc = "insert"]
                 /\ UNCHANGED resp
            ELSE /\ Respond(500, api[h].jobID, "copy")
                 /\ api' = [api EXCEPT ![h] = ApiDone]
                 /\ UNCHANGED disk
    /\ UNCHANGED <<jobs, queue, wk, calls, pushed, popped>>

\* SubmitInsert answering a failed insert with the status of a failed push
SubmitInsertAnswers503(h) ==
    /\ api[h].pc = "insert"
    /\ \E ok \in Outcomes :
         /\ Spend(ok)
         /\ IF ok /\ insertAccepted(jobs, api[h].jobID, api[h].filePath, api[h].action, api[h].params)
            THEN /\ jobs' = insertJob(jobs, api[h].jobID, api[h].filePath, api[h].action, api[h].params)
                 /\ api' = [api EXCEPT ![h].pc = "push"]
                 /\ UNCHANGED resp
            ELSE /\ Respond(503, api[h].jobID, "insert")
                 /\ api' = [api EXCEPT ![h] = ApiDone]
                 /\ UNCHANGED jobs
    /\ UNCHANGED <<queue, disk, wk, calls, pushed, popped>>

\* SubmitInsert without the return at line 244: a failed insert is logged and the
\* handler goes on to push
SubmitInsertNoReturn(h) ==
    /\ api[h].pc = "insert"
    /\ \E ok \in Outcomes :
         /\ Spend(ok)
         /\ jobs' = IF ok /\ insertAccepted(jobs, api[h].jobID, api[h].filePath, api[h].action, api[h].params)
                    THEN insertJob(jobs, api[h].jobID, api[h].filePath, api[h].action, api[h].params)
                    ELSE jobs
    /\ api' = [api EXCEPT ![h].pc = "push"]
    /\ UNCHANGED <<queue, disk, resp, wk, calls, pushed, popped>>

\* lines 235-245: the record is inserted, or the client is told 500
SubmitInsert(h) ==
    /\ api[h].pc = "insert"
    /\ \E ok \in Outcomes :
         /\ Spend(ok)
         /\ IF ok /\ insertAccepted(jobs, api[h].jobID, api[h].filePath, api[h].action, api[h].params)
            THEN /\ jobs' = insertJob(jobs, api[h].jobID, api[h].filePath, api[h].action, api[h].params)
                 /\ api' = [api EXCEPT ![h].pc = "push"]
                 /\ UNCHANGED resp
            ELSE /\ Respond(500, api[h].jobID, "insert")
                 /\ api' = [api EXCEPT ![h] = ApiDone]
                 /\ UNCHANGED jobs
    /\ UNCHANGED <<queue, disk, wk, calls, pushed, popped>>

\* SubmitPush that deletes the record again when the push fails
SubmitPushRollsBack(h) ==
    /\ api[h].pc = "push"
    /\ \E ok \in Outcomes :
         /\ Spend(ok)
         /\ IF ok
            THEN /\ queue' = Append(queue, jobData(api[h].jobID, api[h].filePath, api[h].action, api[h].params))
                 /\ pushed' = Append(pushed, api[h].jobID)
                 /\ api' = [api EXCEPT ![h].pc = "answer"]
                 /\ UNCHANGED <<jobs, resp>>
            ELSE /\ Respond(503, api[h].jobID, "push")
                 /\ jobs' = Drop(jobs, api[h].jobID)
                 /\ api' = [api EXCEPT ![h] = ApiDone]
                 /\ UNCHANGED <<queue, pushed>>
    /\ UNCHANGED <<disk, wk, calls, popped>>

\* lines 247-256: the message is pushed, or the client is told 503
SubmitPush(h) ==
    /\ api[h].pc = "push"
    /\ \E ok \in Outcomes :
         /\ Spend(ok)
         /\ IF ok
            THEN /\ queue' = Append(queue, jobData(api[h].jobID, api[h].filePath, api[h].action, api[h].params))
                 /\ pushed' = Append(pushed, api[h].jobID)
                 /\ api' = [api EXCEPT ![h].pc = "answer"]
                 /\ UNCHANGED resp
            ELSE /\ Respond(503, api[h].jobID, "push")
                 /\ api' = [api EXCEPT ![h] = ApiDone]
                 /\ UNCHANGED <<queue, pushed>>
    /\ UNCHANGED <<jobs, disk, wk, calls, popped>>

\* lines 258-260: the client is told 202 with the job id
SubmitAnswer(h) ==
    /\ api[h].pc = "answer"
    /\ Respond(202, api[h].jobID, "accepted")
    /\ api' = [api EXCEPT ![h] = ApiDone]
    /\ UNCHANGED <<jobs, queue, disk, wk, calls, pushed, popped, faults>>

(***************************************************************************)
(* Worker: startWorker and processTask, one step per resource touched.     *)
(***************************************************************************)
\* the history of updatePGStatus: the call, and the failure it logged when the store
\* was not reached (ok is false) or refused the update
Issue(jobID, status, resultData, ok) ==
    calls' = calls \cup {<<jobID, status>>}
                   \cup (IF ~ok \/ updateRefused(jobID, status, resultData)
                         THEN {<<jobID, status, "error">>} ELSE {})

\* os.Remove(path): the file is gone afterwards when the removal succeeds
osRemove(d, path, ok) == IF ok /\ path \in DOMAIN d THEN Drop(d, path) ELSE d

\* the text of an *fs.PathError: the operation, the path and what the system said.
\* The code never inspects it; which error of the system it is bears on its length
\* only, and one is taken for each kind of failure
PathError(op, path, text) == <<op, " ">> \o path \o <<": ", text>>

\* Pop with BRPop in place of BLPop: the newest message of the list is taken
PopNewest(w) ==
    /\ wk[w].pc = "pop"
    /\ queue # <<>>
    /\ wk' = [wk EXCEPT ![w] = [WorkerIdle EXCEPT !.pc = "start", !.task = queue[Len(queue)]]]
    /\ queue' = SubSeq(queue, 1, Len(queue) - 1)
    /\ \E id \in {Split(queue[Len(queue)], "|")[1]} : popped' = Put(popped, id, Count(popped, id) + 1)
    /\ UNCHANGED <<jobs, disk, api, resp, calls, pushed, faults>>

\* lines 580-590: BLPop returns the head of the list and removes it
Pop(w) ==
    /\ wk[w].pc = "pop"
    /\ queue # <<>>
    /\ wk' = [wk EXCEPT ![w] = [WorkerIdle EXCEPT !.pc = "start", !.task = Head(queue)]]
    /\ queue' = Tail(queue)
    /\ \E id \in {Split(Head(queue), "|")[1]} : popped' = Put(popped, id, Count(popped, id) + 1)
    /\ UNCHANGED <<jobs, disk, api, resp, calls, pushed, faults>>

\* PopError of a pop that is not atomic: the message at the head is lost with the
\* connection
PopErrorConsumes(w) ==
    /\ wk[w].pc = "pop"
    /\ Spend(FALSE)
    /\ queue' = IF queue = <<>> THEN queue ELSE Tail(queue)
    /\ UNCHANGED <<jobs, disk, api, resp, wk, calls, pushed, popped>>

\* lines 582-588: BLPop fails; the worker sleeps and pops again
PopError(w) ==
    /\ wk[w].pc = "pop"
    /\ Spend(FALSE)
    /\ UNCHANGED <<jobs, queue, disk, api, resp, wk, calls, pushed, popped>>

\* lines 482-499: the message is split; the job is marked PROCESSING
Start(w, ok) ==
    /\ wk[w].pc = "start"
    /\ \E parts \in {Split(wk[w].task, "|")} :
           IF Len(parts) < 3
           THEN /\ wk' = [wk EXCEPT ![w] = WorkerIdle]
                /\ UNCHANGED <<jobs, calls, faults>>
           ELSE /\ Spend(ok)
                /\ wk' = [wk EXCEPT ![w].pc = "work",
                                    ![w].jobID = parts[1],
                                    ![w].inputPath = parts[2],
                                    ![w].action = parts[3],
                                    ![w].params = IF Len(parts) > 3 THEN parts[4] ELSE <<>>]
                /\ Issue(parts[1], "PROCESSING", <<>>, ok)
                /\ jobs' = IF ok THEN updatePGStatus(jobs, parts[1], "PROCESSING", <<>>) ELSE jobs
    /\ UNCHANGED <<queue, disk, api, resp, pushed, popped>>

\* outputPathOf naming the output after the action and the time only
outputPathOfShared(jobID, action) ==
    JoinStorage(action \o <<"_">> \o Str_now \o Str_jpg)

\* line 524-525: the path of the output file
outputPathOf(jobID, action) ==
    JoinStorage(jobID \o <<"_">> \o action \o <<"_">> \o Str_now \o Str_jpg)

\* lines 503-526 and 385-388: open, decode, transform, and the output file created
\* empty; processErr is set by the first failure.  A transform that panics ends the
\* worker process where it stands
Work(w) ==
    /\ wk[w].pc = "work"
    /\ LET me == wk[w]
           failed(at, msg) == wk' = [wk EXCEPT ![w].pc = "fail", ![w].processErr = msg,
                                               ![w].failedAt = at]
       IN  IF me.inputPath \notin DOMAIN disk
           THEN /\ failed("open", <<"file not found at ">> \o me.inputPath \o <<": ">>
                             \o PathError("open", me.inputPath, "no such file or directory"))
                /\ UNCHANGED <<disk, faults>>
           ELSE \E opened \in Outcomes :
             IF ~opened
             THEN /\ failed("open", <<"file not found at ">> \o me.inputPath \o <<": ">>
                               \o PathError("open", me.inputPath, "too many open files"))
                  /\ Spend(FALSE)
                  /\ UNCHANGED disk
             ELSE IF ~disk[me.inputPath].decodable
             THEN /\ failed("decode", <<"error decoding image: ", "image: unknown format">>)
                  /\ UNCHANGED <<disk, faults>>
             ELSE \E read \in Outcomes :
               IF ~read
               THEN /\ failed("decode", <<"error decoding image: ">>
                                 \o PathError("read", me.inputPath, "input/output error"))
                    /\ Spend(FALSE)
                    /\ UNCHANGED disk
               ELSE \E r \in {processImage(disk[me.inputPath].img, me.action, me.params)},
                       outputPath \in {outputPathOf(me.jobID, me.action)} :
                        IF r.panics
                        THEN /\ wk' = [wk EXCEPT ![w].pc = "crashed"]
                             /\ UNCHANGED <<disk, faults>>
                        ELSE IF ~r.ok
                        THEN /\ failed("transform", <<"error during image processing (">>
                                          \o me.action \o <<" with params '">> \o me.params
                                          \o <<"'): ">> \o r.err)
                             /\ UNCHANGED <<disk, faults>>
                        ELSE \E created \in Outcomes :
                               /\ Spend(created)
                               /\ IF created
                                  THEN /\ disk' = Put(disk, outputPath, Undecodable)
                                       /\ wk' = [wk EXCEPT ![w].pc = "encode",
                                                           ![w].outputPath = outputPath,
                                                           ![w].img = r.img]
                                  ELSE /\ failed("save", <<"error saving processed image: ",
                                                   "error creating output file ">> \o outputPath
                                                     \o <<": ">>
                                                     \o PathError("open", outputPath,
                                                                  "no space left on device"))
                                       /\ UNCHANGED disk
    /\ UNCHANGED <<jobs, queue, api, resp, calls, pushed, popped>>

\* lines 390-398: the processed image is drawn on an RGBA image and encoded into the
\* output file; an image jpeg.Encode refuses, or a failed write, leaves the file
\* without an image in it
Encode(w) ==
    /\ wk[w].pc = "encode"
    /\ LET me == wk[w]
           failed(msg) == wk' = [wk EXCEPT ![w].pc = "fail", ![w].processErr = msg,
                                           ![w].failedAt = "save", ![w].outputPath = <<>>,
                                           ![w].img = NoImage]
       IN  IF ~jpegEncodes(me.img)
           THEN /\ failed(<<"error saving processed image: ",
                            "error encoding and saving image: ",
                            "jpeg: image is too large to encode">>)
                /\ UNCHANGED <<disk, faults>>
           ELSE \E encoded \in Outcomes :
                  /\ Spend(encoded)
                  /\ IF encoded
                     THEN /\ disk' = Put(disk, me.outputPath, Decodable(JpegOf(me.img)))
                          /\ wk' = [wk EXCEPT ![w].pc = "complete", ![w].img = NoImage]
                     ELSE /\ failed(<<"error saving processed image: ",
                                      "error encoding and saving image: ">>
                                        \o PathError("write", me.outputPath,
                                                     "no space left on device"))
                          /\ UNCHANGED disk
    /\ UNCHANGED <<jobs, queue, api, resp, calls, pushed, popped>>

\* line 535: the job is marked COMPLETED with the output path
Complete(w, ok) ==
    /\ wk[w].pc = "complete"
    /\ Spend(ok)
    /\ wk' = [wk EXCEPT ![w].pc = "cleanup"]
    /\ jobs' = IF ok THEN updatePGStatus(jobs, wk[w].jobID, "COMPLETED", wk[w].outputPath)
               ELSE jobs
    /\ Issue(wk[w].jobID, "COMPLETED", wk[w].outputPath, ok)
    /\ UNCHANGED <<queue, disk, api, resp, pushed, popped>>

\* Fail that puts the task back on the queue for another attempt
FailRequeues(w, ok) ==
    /\ wk[w].pc = "fail"
    /\ Spend(ok)
    /\ jobs' = IF ok THEN updatePGStatus(jobs, wk[w].jobID, "FAILED", wk[w].processErr)
               ELSE jobs
    /\ Issue(wk[w].jobID, "FAILED", wk[w].processErr, ok)
    /\ queue' = Append(queue, wk[w].task)
    /\ wk' = [wk EXCEPT ![w].pc = "cleanup"]
    /\ UNCHANGED <<disk, api, resp, pushed, popped>>

\* Fail passing "" as the result data, as the PROCESSING update does
FailWithoutMessage(w, ok) ==
    /\ wk[w].pc = "fail"
    /\ Spend(ok)
    /\ jobs' = IF ok THEN updatePGStatus(jobs, wk[w].jobID, "FAILED", <<>>) ELSE jobs
    /\ Issue(wk[w].jobID, "FAILED", <<>>, ok)
    /\ wk' = [wk EXCEPT ![w].pc = "cleanup"]
    /\ UNCHANGED <<queue, disk, api, resp, pushed, popped>>

\* Fail that only logs the failure and leaves the job's record as it is
FailOnlyLogs(w, ok) ==
    /\ wk[w].pc = "fail"
    /\ Spend(ok)
    /\ wk' = [wk EXCEPT ![w].pc = "cleanup"]
    /\ UNCHANGED <<jobs, queue, disk, api, resp, calls, pushed, popped>>

\* line 550: the job is marked FAILED with the diagnostic
Fail(w, ok) ==
    /\ wk[w].pc = "fail"
    /\ Spend(ok)
    /\ wk' = [wk EXCEPT ![w].pc = "cleanup"]
    /\ jobs' = IF ok THEN updatePGStatus(jobs, wk[w].jobID, "FAILED", wk[w].processErr)
               ELSE jobs
    /\ Issue(wk[w].jobID, "FAILED", wk[w].processErr, ok)
    /\ UNCHANGED <<queue, disk, api, resp, pushed, popped>>

\* Cleanup that treats a failed removal as a failure of the job
CleanupFailsJob(w) ==
    /\ wk[w].pc = "cleanup"
    /\ \E ok \in Outcomes :
         /\ Spend(ok)
         /\ disk' = osRemove(disk, wk[w].inputPath, ok)
         /\ jobs' = IF ok THEN jobs
                    ELSE updatePGStatus(jobs, wk[w].jobID, "FAILED",
                                        <<"failed to remove input file ">> \o wk[w].inputPath)
    /\ wk' = [wk EXCEPT ![w] = WorkerIdle]
    /\ UNCHANGED <<queue, api, resp, calls, pushed, popped>>

\* lines 538-540 and 556-558: the input file is removed, best effort; then the
\* worker is back at BLPop
Cleanup(w) ==
    /\ wk[w].pc = "cleanup"
    /\ \E ok \in Outcomes :
         /\ Spend(ok)
         /\ disk' = osRemove(disk, wk[w].inputPath, ok)
    /\ wk' = [wk EXCEPT ![w] = WorkerIdle]
    /\ UNCHANGED <<jobs, queue, api, resp, calls, pushed, popped>>

\* Crash under a queue with acknowledgement: the unacknowledged message of the dead
\* worker goes back on the queue
CrashRedelivers(w) ==
    /\ wk[w].pc # "crashed"
    /\ FALSE \in Outcomes
    /\ Spend(FALSE)
    /\ wk' = [wk EXCEPT ![w].pc = "crashed"]
    /\ queue' = IF wk[w].task = <<>> THEN queue ELSE Append(queue, wk[w].task)
    /\ UNCHANGED <<jobs, disk, api, resp, calls, pushed, popped>>

\* the worker process dies
Crash(w) ==
    /\ wk[w].pc # "crashed"
    /\ FALSE \in Outcomes
    /\ Spend(FALSE)
    /\ wk' = [wk EXCEPT ![w].pc = "crashed"]
    /\ UNCHANGED <<jobs, queue, disk, api, resp, calls, pushed, popped>>

Next ==
    \/ \E h \in Handlers : \E req \in RequestsAt(h) : SubmitUpload(h, req)
    \/ \E h \in Handlers : SubmitCopy(h)
    \/ \E h \in Handlers : SubmitInsert(h)
    \/ \E h \in Handlers : SubmitPush(h)
    \/ \E h \in Handlers : SubmitAnswer(h)
    \/ \E w \in Workers : Pop(w)
    \/ \E w \in Workers : FALSE \in Outcomes /\ PopError(w)
    \/ \E w \in Workers, ok \in Outcomes : Start(w, ok)
    \/ \E w \in Workers : Work(w)
    \/ \E w \in Workers : Encode(w)
    \/ \E w \in Workers, ok \in Outcomes : Complete(w, ok)
    \/ \E w \in Workers, ok \in Outcomes : Fail(w, ok)
    \/ \E w \in Workers : Cleanup(w)
    \/ \E w \in Workers : Crash(w)

Spec == Init /\ [][Next]_vars

(***************************************************************************)
(* The pipeline when no worker dies and every store update of a worker     *)
(* succeeds; each worker process keeps taking steps.                       *)
(***************************************************************************)
WorkerStep(w) ==
    \/ Pop(w)
    \/ Start(w, TRUE)
    \/ Work(w)
    \/ Encode(w)
    \/ Complete(w, TRUE)
    \/ Fail(w, TRUE)
    \/ Cleanup(w)

NextLive ==
    \/ \E h \in Handlers : \E req \in RequestsAt(h) : SubmitUpload(h, req)
    \/ \E h \in Handlers : SubmitCopy(h)
    \/ \E h \in Handlers : SubmitInsert(h)
    \/ \E h \in Handlers : SubmitPush(h)
    \/ \E h \in Handlers : SubmitAnswer(h)
    \/ \E w \in Workers : FALSE \in Outcomes /\ PopError(w)
    \/ \E w \in Workers : WorkerStep(w)

LiveSpec == Init /\ [][NextLive]_vars /\ \A w \in Workers : WF_vars(WorkerStep(w))

(***************************************************************************)
(* The pipeline under the premises of termination: no worker process is    *)
(* killed, the store answers every update of a worker, and each worker     *)
(* keeps taking the steps of its loop.  The first submission is one of     *)
(* FairForms, the second the plain grayscale; submissions and pops may     *)
(* fail.                                                                   *)
(***************************************************************************)
\* the forms of the jobs a worker completes, fails on open, decode or transform, fails
\* to mark FAILED, and ends its process on
FairForms ==
    {f \in Forms :
        /\ f.filename = <<"f">>
        /\ \/ f.action \in {Str_grayscale, Str_crop}
           \/ /\ f.action = Str_resize
              /\ f.params \in {<<"3", "x", "1", Run252, " ">>, MaxUint32 \o <<"x">> \o MaxUint32}}

FairRequestsAt(n) == IF n = 1 THEN {Post(f) : f \in FairForms} ELSE {Post(PlainForm)}

FairNext ==
    \/ \E h \in Handlers : \E req \in FairRequestsAt(h) : SubmitUpload(h, req)
    \/ \E h \in Handlers : SubmitCopy(h)
    \/ \E h \in Handlers : SubmitInsert(h)
    \/ \E h \in Handlers : SubmitPush(h)
    \/ \E h \in Handlers : SubmitAnswer(h)
    \/ \E w \in Workers : FALSE \in Outcomes /\ PopError(w)
    \/ \E w \in Workers : WorkerStep(w)

FairSpec == Init /\ [][FairNext]_vars /\ \A w \in Workers : WF_vars(WorkerStep(w))

(***************************************************************************)
(* The pipeline when no worker process is killed, while store updates,     *)
(* file operations and pops may fail; each worker process keeps taking     *)
(* steps.                                                                  *)
(***************************************************************************)
WorkerAny(w) ==
    \/ Pop(w)
    \/ FALSE \in Outcomes /\ PopError(w)
    \/ \E ok \in Outcomes : Start(w, ok)
    \/ Work(w)
    \/ Encode(w)
    \/ \E ok \in Outcomes : Complete(w, ok)
    \/ \E ok \in Outcomes : Fail(w, ok)
    \/ Cleanup(w)

NextNoCrash ==
    \/ \E h \in Handlers : \E req \in RequestsAt(h) : SubmitUpload(h, req)
    \/ \E h \in Handlers : SubmitCopy(h)
    \/ \E h \in Handlers : SubmitInsert(h)
    \/ \E h \in Handlers : SubmitPush(h)
    \/ \E h \in Handlers : SubmitAnswer(h)
    \/ \E w \in Workers : WorkerAny(w)

NoCrashSpec == Init /\ [][NextNoCrash]_vars /\ \A w \in Workers : WF_vars(WorkerAny(w))

(***************************************************************************)
(* The pipeline when no worker process is killed and the connection to     *)
(* the queue may fail at a pop again and again: a worker's pop may fail    *)
(* as long as fewer than MaxPopFaults failures have happened, whatever     *)
(* failed before.                                                          *)
(***************************************************************************)
PopNext ==
    \/ NextNoCrash
    \/ \E w \in Workers : faults < MaxPopFaults /\ PopError(w)

PopSpec == Init /\ [][PopNext]_vars

(***************************************************************************)
(* The pipeline as main deploys it: one process running startWorker, which *)
(* may fail at any call and may be killed.                                 *)
(***************************************************************************)
SingleNext ==
    \/ \E h \in Handlers : \E req \in RequestsAt(h) : SubmitUpload(h, req)
    \/ \E h \in Handlers : SubmitCopy(h)
    \/ \E h \in Handlers : SubmitInsert(h)
    \/ \E h \in Handlers : SubmitPush(h)
    \/ \E h \in Handlers : SubmitAnswer(h)
    \/ WorkerAny(1)
    \/ Crash(1)

SingleSpec == Init /\ [][SingleNext]_vars

(***************************************************************************)
(* The Job Store on its own: updatePGStatus called with any job id, status *)
(* and result data on any store of two jobs.                               *)
(***************************************************************************)
StoreIds == {uuidNew(1), uuidNew(2), uuidNew(3)}

\* the result data processTask passes: "", an output path, a diagnostic, and a
\* diagnostic of more than 255 characters
StoreResults ==
    {<<>>, outputPathOf(uuidNew(1), Str_grayscale), outputPathOf(uuidNew(2), Str_grayscale),
     <<"error decoding image: ", "image: unknown format">>,
     <<"error during image processing (">> \o Str_resize \o <<" with params '">>
         \o <<"3", "x", "1", Run252, " ">>
         \o <<"'): ", "invalid width or height value in resize parameters or value is zero">>}

\* the rows the pipeline leaves for a job, one per status
StoreRows(jobID) ==
    LET row == insertJob(<<>>, jobID, JoinStorage(jobID \o <<"_", "f">>), Str_grayscale, <<>>)
    IN  {row[jobID]} \cup
        {updatePGStatus(row, jobID, "PROCESSING", <<>>)[jobID],
         updatePGStatus(row, jobID, "COMPLETED", outputPathOf(jobID, Str_grayscale))[jobID],
         updatePGStatus(row, jobID, "FAILED", <<"error decoding image: ", "image: unknown format">>)[jobID]}

StoreInit ==
    /\ jobs \in {js \in [{uuidNew(1), uuidNew(2)} ->
                             StoreRows(uuidNew(1)) \cup StoreRows(uuidNew(2))] :
                      \A id \in DOMAIN js : js[id] \in StoreRows(id)}
    /\ queue = <<>>
    /\ disk = <<>>
    /\ api = [h \in Handlers |-> ApiIdle]
    /\ resp = <<>>
    /\ wk = [w \in Workers |-> WorkerIdle]
    /\ calls = {}
    /\ pushed = <<>>
    /\ popped = <<>>
    /\ faults = 0

StoreCall(jobID, status, resultData) ==
    /\ jobs' = updatePGStatus(jobs, jobID, status, resultData)
    /\ UNCHANGED <<queue, disk, api, resp, wk, calls, pushed, popped, faults>>

StoreNext ==
    \E jobID \in StoreIds, status \in {"PROCESSING", "COMPLETED", "FAILED"},
       resultData \in StoreResults : StoreCall(jobID, status, resultData)

StoreSpec == StoreInit /\ [][StoreNext]_vars

(***************************************************************************)
(* applyCrop on its own: a worker about to process an accepted crop job    *)
(* whose four coordinates and whose upload are any of a few.               *)
(***************************************************************************)
CropCoords == (-1)..MaxCoord

\* the decimal text of an integer, as a client writes it into params
ItoaInt(n) == IF n < 0 THEN <<"-">> \o Itoa(0 - n) ELSE Itoa(n)

CropParams(c) ==
    ItoaInt(c[1]) \o <<",">> \o ItoaInt(c[2]) \o <<",">> \o ItoaInt(c[3]) \o <<",">> \o ItoaInt(c[4])

\* an image of the given bounds whose pixels all differ
TestImage(min, w, h, out) ==
    [min |-> min, w |-> w, h |-> h,
     pix |-> [p \in (min[1]..(min[1] + w - 1)) \X (min[2]..(min[2] + h - 1))
                  |-> <<40 * p[1] + 10, 200 - 90 * p[2], 100>>],
     out |-> out]

\* a 2x2 PNG, and two GIFs whose first frame is 2x2 at offset (1,0), the palette
\* of one starting with white and of the other with black
CropImages ==
    {TestImage(<<0, 0>>, 2, 2, Black), TestImage(<<1, 0>>, 2, 2, <<255, 255, 255>>),
     TestImage(<<1, 0>>, 2, 2, Black)}

\* the state after one crop submission was accepted, its message popped by worker 1
\* and the job marked PROCESSING; no failure of the environment is to come
CropInit ==
    \E c \in CropCoords \X CropCoords \X CropCoords \X CropCoords, img \in CropImages :
        LET id       == uuidNew(1)
            filePath == JoinStorage(id \o <<"_", "f">>)
            params   == CropParams(c)
        IN  /\ jobs = updatePGStatus(insertJob(<<>>, id, filePath, Str_crop, params),
                                     id, "PROCESSING", <<>>)
            /\ queue = <<>>
            /\ disk = Put(<<>>, filePath, Decodable(img))
            /\ api = [h \in Handlers |-> IF h = 1 THEN ApiDone ELSE ApiIdle]
            /\ resp = <<[code |-> 202, jobID |-> id, at |-> "accepted"]>>
            /\ wk = [w \in Workers |->
                        IF w = 1
                        THEN [WorkerIdle EXCEPT !.pc = "work",
                                                !.task = jobData(id, filePath, Str_crop, params),
                                                !.jobID = id, !.inputPath = filePath,
                                                !.action = Str_crop, !.params = params]
                        ELSE WorkerIdle]
            /\ calls = {<<id, "PROCESSING">>}
            /\ pushed = <<id>>
            /\ popped = Put(<<>>, id, 1)
            /\ faults = MaxFaults

CropNext == Work(1) \/ Encode(1)

CropSpec == CropInit /\ [][CropNext]_vars

(***************************************************************************)
(* applyResize on its own: a worker about to process an accepted resize    *)
(* job whose params are any of a few strings.                              *)
(***************************************************************************)
\* the numeral of 2^32
TwoTo32 == <<"4", "2", "9", "4", "9", "6", "7", "2", "9", "6">>

\* the least dimension jpeg.Encode refuses (1 << 16)
JpegLimit == <<"6", "5", "5", "3", "6">>

\* what a client may write for one dimension: the numerals up to MaxDim, and an
\* empty, a zero-padded, two signed, a non-numeric, a 33-bit one and the least one
\* that cannot be encoded
ResizeNumerals ==
    {Itoa(n) : n \in 0..MaxDim}
        \cup {<<>>, <<"0", "3">>, <<"-", "1">>, <<"+", "2">>, <<"1", "a">>, TwoTo32, JpegLimit}

\* params of one, two and three parts, with a separator of the wrong case, and the
\* largest size that can be asked for
ResizeParams ==
    ResizeNumerals
        \cup {a \o <<"x">> \o b : a \in ResizeNumerals, b \in ResizeNumerals}
        \cup {a \o <<"X">> \o a : a \in ResizeNumerals}
        \cup {a \o <<"x">> \o a \o <<"x">> \o a : a \in ResizeNumerals}
        \cup {MaxUint32 \o <<"x">> \o MaxUint32}

\* the state after one resize submission was accepted, its message popped by worker 1
\* and the job marked PROCESSING; no failure of the environment is to come
ResizeInit ==
    \E params \in ResizeParams, img \in CropImages :
        LET id       == uuidNew(1)
            filePath == JoinStorage(id \o <<"_", "f">>)
        IN  /\ jobs = updatePGStatus(insertJob(<<>>, id, filePath, Str_resize, params),
                                     id, "PROCESSING", <<>>)
            /\ queue = <<>>
            /\ disk = Put(<<>>, filePath, Decodable(img))
            /\ api = [h \in Handlers |-> IF h = 1 THEN ApiDone ELSE ApiIdle]
            /\ resp = <<[code |-> 202, jobID |-> id, at |-> "accepted"]>>
            /\ wk = [w \in Workers |->
                        IF w = 1
                        THEN [WorkerIdle EXCEPT !.pc = "work",
                                                !.task = jobData(id, filePath, Str_resize, params),
                                                !.jobID = id, !.inputPath = filePath,
                                                !.action = Str_resize, !.params = params]
                        ELSE WorkerIdle]
            /\ calls = {<<id, "PROCESSING">>}
            /\ pushed = <<id>>
            /\ popped = Put(<<>>, id, 1)
            /\ faults = MaxFaults

ResizeNext == Work(1) \/ Encode(1)

ResizeSpec == ResizeInit /\ [][ResizeNext]_vars

\* the read-only handlers
Terminal == {"COMPLETED", "FAILED"}

\* the text of a response body, piece by piece: a brace, a "key": "value" member, or
\* the plain text http.Error writes
Brace(b) == [k |-> b, v |-> <<>>]
Member(key, value) == [k |-> key, v |-> value]
Text(t) == [k |-> "", v |-> <<t>>]

\* getJobStatusHandler, lines 264-311: what the status query answers to a request of
\* the given method for an id; selected tells whether the store answered the SELECT
\* (an id that is not a UUID is refused by the store whenever it is asked); body is
\* the text written, status the status text inside it
getJobStatusHandler(js, method, jobIDStr, selected) ==
    IF method # "GET"
    THEN [code |-> 405, status |-> "", body |-> <<Text("Method not allowed")>>]
    ELSE IF jobIDStr = <<>>
    THEN [code |-> 400, status |-> "", body |-> <<Text("Missing 'id' parameter")>>]
    ELSE IF ~selected \/ ~UuidParse(jobIDStr).ok
    THEN [code |-> 500, status |-> "",
          body |-> <<Text("Internal server error reading job status.")>>]
    ELSE IF UuidParse(jobIDStr).val \notin DOMAIN js
    THEN [code |-> 404, status |-> "UNKNOWN",
          body |-> <<Brace("{"), Member("job_id", jobIDStr), Member("status", <<"UNKNOWN">>),
                     Member("message", <<"Job not found.">>), Brace("}")>>]
    ELSE LET row        == js[UuidParse(jobIDStr).val]
             status     == row.status
             outputPath == row.output_path
             response   == <<Brace("{"), Member("job_id", jobIDStr),
                             Member("status", <<status>>), Member("action", row.action)>>
         IN  [code |-> 200, status |-> status,
              body |-> (IF status = "COMPLETED"
                        THEN response \o <<Member("download_url", <<"/job/download?id=">> \o jobIDStr),
                                           Brace("}")>>
                        ELSE IF status = "FAILED"
                             THEN response \o <<Member("error_message", outputPath.String),
                                                Brace("}")>>
                             ELSE response)
                       \o <<Brace("}")>>]

\* downloadProcessedImageHandler, lines 314-366: what the download answers to a
\* request of the given method for an id; 200 carries the file, 202 the text "Job is
\* not completed yet. Current status: ..."
downloadProcessedImageHandler(js, d, method, jobIDStr, selected) ==
    IF method # "GET"
    THEN [code |-> 405, body |-> <<"Method not allowed">>]
    ELSE IF jobIDStr = <<>>
    THEN [code |-> 400, body |-> <<"Missing 'id' parameter">>]
    ELSE IF ~selected \/ ~UuidParse(jobIDStr).ok
    THEN [code |-> 500, body |-> <<"Internal server error.">>]
    ELSE IF UuidParse(jobIDStr).val \notin DOMAIN js
    THEN [code |-> 404, body |-> <<"Job not found.">>]
    ELSE LET row == js[UuidParse(jobIDStr).val]
         IN  IF row.status # "COMPLETED" \/ ~row.output_path.Valid
             THEN [code |-> 202,
                   body |-> <<"Job is not completed yet. Current status: ", row.status>>]
             ELSE IF row.output_path.String \notin DOMAIN d
                  THEN [code |-> 404, body |-> <<"Processed file not found on disk.">>]
                  ELSE [code |-> 200, body |-> d[row.output_path.String]]

\* the ids a client may ask about: those handed out in a run and one never handed
\* out; the first of them in capitals; no id; a text that is no UUID
JobIds == {uuidNew(n) : n \in 1..(MaxJobs + 1)}
Upper(s) ==
    [i \in 1..Len(s) |-> CASE s[i] = "a" -> "A" [] s[i] = "b" -> "B" [] s[i] = "c" -> "C"
                            [] s[i] = "d" -> "D" [] s[i] = "e" -> "E" [] s[i] = "f" -> "F"
                            [] OTHER -> s[i]]
QueryIds == JobIds \cup {Upper(uuidNew(1)), <<>>, <<"x", "y", "z">>}

(***************************************************************************)
(* Properties.                                                             *)
(***************************************************************************)
\* the job id a queue message names: the text before its first '|'
MessageJob(m) == Split(m, "|")[1]

QueueJobs == {MessageJob(queue[i]) : i \in 1..Len(queue)}
HeldJobs == {MessageJob(wk[w].task) : w \in {v \in Workers : wk[v].task # <<>>}}

\* C1: every queue message, still queued, held by a worker or handled earlier, names
\* a job whose record is in the store.
C1_RecordBeforeMessage ==
    /\ QueueJobs \subseteq DOMAIN jobs
    /\ HeldJobs \subseteq DOMAIN jobs
    /\ {pushed[i] : i \in 1..Len(pushed)} \subseteq DOMAIN jobs
    /\ DOMAIN popped \subseteq DOMAIN jobs

\* one message waits in the queue while a worker holds another
C1_Witness == queue # <<>> /\ HeldJobs # {} /\ QueueJobs \cap HeldJobs = {}

\* C2: a job whose stored status is COMPLETED or FAILED keeps its status and its
\* result field in every step.
C2_TerminalIsFinal ==
    [][\A id \in DOMAIN jobs :
          jobs[id].status \in Terminal =>
              /\ id \in DOMAIN jobs'
              /\ jobs'[id].status = jobs[id].status
              /\ jobs'[id].output_path = jobs[id].output_path]_vars

\* one job is COMPLETED and a worker has since issued updates for another job
C2_Witness ==
    \E id \in DOMAIN jobs :
        /\ jobs[id].status = "COMPLETED"
        /\ \E c \in calls : c[1] # id /\ c[2] \in Terminal
        /\ \A c \in calls : c[1] # id => <<id, "COMPLETED">> \in calls

LegalTransitions ==
    {<<"QUEUED", "PROCESSING">>, <<"PROCESSING", "COMPLETED">>, <<"PROCESSING", "FAILED">>}

\* C3: every change of a job's stored status is QUEUED->PROCESSING,
\* PROCESSING->COMPLETED or PROCESSING->FAILED, also when a store update fails.
C3_OnlyLegalTransitions ==
    [][\A id \in DOMAIN jobs :
          /\ id \in DOMAIN jobs'
          /\ jobs'[id].status # jobs[id].status =>
                 <<jobs[id].status, jobs'[id].status>> \in LegalTransitions]_vars

\* the result field of a job names a file on disk that decodes
HoldsArtifact(id) ==
    /\ jobs[id].output_path.Valid
    /\ jobs[id].output_path.String \in DOMAIN disk
    /\ disk[jobs[id].output_path.String].decodable

\* C4: a job's output_path names a completely written output file exactly when the
\* job is COMPLETED.
C4_ArtifactIffCompleted ==
    \A id \in DOMAIN jobs : HoldsArtifact(id) <=> jobs[id].status = "COMPLETED"

\* the first words of the four diagnostics of processTask
DiagnosticPrefixes ==
    {"file not found at ", "error decoding image: ", "error during image processing (",
     "error saving processed image: "}

IsDiagnostic(s) == s # <<>> /\ s[1] \in DiagnosticPrefixes

\* C5: a job's result field holds a non-empty diagnostic exactly when the job is
\* FAILED, and the result field of a FAILED job names no file.
C5_DiagnosticIffFailed ==
    \A id \in DOMAIN jobs :
        /\ (jobs[id].output_path.Valid /\ IsDiagnostic(jobs[id].output_path.String))
               <=> jobs[id].status = "FAILED"
        /\ jobs[id].status = "FAILED" => jobs[id].output_path.String \notin DOMAIN disk

\* a job is FAILED because its output could not be encoded: the partly written
\* output file is on disk, and another job is COMPLETED or still under way
C5_Witness ==
    \E id \in DOMAIN jobs :
        /\ jobs[id].status = "FAILED"
        /\ jobs[id].output_path.String[1] = "error saving processed image: "
        /\ outputPathOf(id, jobs[id].action) \in DOMAIN disk
        /\ \E other \in DOMAIN jobs : jobs[other].status # "FAILED"

Str_crop_10_10_5_5 == <<"1", "0", ",", "1", "0", ",", "5", ",", "5">>

\* a worker has issued the final update of its task and is about to clean up
Finalized(w) == wk[w].pc = "cleanup"

\* what the task of worker w is bound to run into, read off the message and the disk
MustFail(w) ==
    \/ wk[w].inputPath \notin DOMAIN disk
    \/ ~disk[wk[w].inputPath].decodable
    \/ wk[w].action \notin {Str_grayscale, Str_resize, Str_crop}
    \/ wk[w].action = Str_crop /\ wk[w].params = Str_crop_10_10_5_5
    \/ wk[w].action = Str_resize /\ wk[w].params = <<"0", "x", "1">>
    \/ wk[w].action = Str_resize /\ wk[w].params = <<"3", "x", "1", Run252, " ">>
    \/ wk[w].action = Str_resize /\ wk[w].params = JpegLimit \o <<"x", "1">>

\* C6: when the store is reachable, a task handled to the end has its job COMPLETED
\* in the store exactly when open, decode, transform and save all succeeded (the
\* output is then on disk and decodes); otherwise its job is FAILED in the store and
\* no COMPLETED update is issued for it.
C6_CompletedIffAllSucceeded ==
    \A w \in Workers :
        Finalized(w) =>
            LET id        == wk[w].jobID
                completed == <<id, "COMPLETED">> \in calls
                failed    == <<id, "FAILED">> \in calls
            IN  /\ completed <=> wk[w].failedAt = ""
                /\ completed => /\ wk[w].outputPath \in DOMAIN disk
                                /\ disk[wk[w].outputPath].decodable
                                /\ jobs[id].status = "COMPLETED"
                /\ failed <=> ~completed
                /\ failed => jobs[id].status = "FAILED"
                /\ MustFail(w) => failed

\* the job of an accepted submission: its record is stored and its message was pushed
Submitted(id) == id \in DOMAIN jobs /\ Occurs(pushed, id) > 0

\* what the claim's premises exclude for a job: an update of its record has failed, or
\* the worker process that handles it has ended
Excused(id) ==
    \/ \E status \in {"PROCESSING", "COMPLETED", "FAILED"} : <<id, status, "error">> \in calls
    \/ \E w \in Workers : wk[w].pc = "crashed" /\ wk[w].jobID = id

\* every job submitted so far is COMPLETED or FAILED in the store, or excused
Settled ==
    \A id \in JobIds : Submitted(id) => (jobs[id].status \in Terminal \/ Excused(id))

\* C7: when every worker keeps taking steps, every job whose record is stored and whose
\* message was pushed is eventually COMPLETED or FAILED in the store, unless an update
\* of its record has failed or the worker process handling it has ended: at any time
\* of a run a later time comes at which this is so for every job submitted by then
\* (a submitted job stays submitted, so this holds of each job from its submission).
C7_EventuallyTerminal == []<>Settled

\* both jobs were submitted and are terminal, one COMPLETED and one FAILED, with no
\* failed update and no ended worker process
C7_Witness ==
    /\ \E id \in JobIds : Submitted(id) /\ ~Excused(id) /\ jobs[id].status = "COMPLETED"
    /\ \E id \in JobIds : Submitted(id) /\ ~Excused(id) /\ jobs[id].status = "FAILED"
    /\ \A w \in Workers : wk[w].pc = "pop"

\* the workers whose current task names job id
Holders(id) == {w \in Workers : wk[w].task # <<>> /\ MessageJob(wk[w].task) = id}

\* C8: a job's message is pushed at most once and popped at most once, no two workers
\* hold the same job, and a popped or FAILED job is not in the queue again.
C8_ProcessedAtMostOnce ==
    \A id \in DOMAIN jobs :
        /\ Occurs(pushed, id) <= 1
        /\ Count(popped, id) <= Occurs(pushed, id)
        /\ Cardinality({i \in 1..Len(queue) : MessageJob(queue[i]) = id}) + Count(popped, id)
               = Occurs(pushed, id)
        /\ Cardinality(Holders(id)) <= 1
        /\ <<id, "FAILED">> \in calls => id \notin QueueJobs /\ Count(popped, id) = 1

\* a job was finalized FAILED and its worker moved on, while another worker is in
\* the middle of another job
C8_Witness ==
    \E id \in DOMAIN jobs :
        /\ <<id, "FAILED">> \in calls
        /\ Holders(id) = {}
        /\ \E w \in Workers : wk[w].pc = "work" /\ wk[w].jobID # id
        /\ \E w \in Workers : wk[w].pc = "pop"

\* C9: once a submission was answered 503 (record inserted, push failed) its record
\* stays in the store as QUEUED, no worker ever gets the job, and the status query
\* answers 200 QUEUED for it; and a stored job that was never pushed was answered 503.
C9_OrphanStaysQueued ==
    \A n \in 1..Len(resp) :
        LET id == resp[n].jobID
        IN  /\ resp[n].code = 503 =>
                  /\ id \in DOMAIN jobs
                  /\ jobs[id].status = "QUEUED"
                  /\ id \notin QueueJobs
                  /\ Occurs(pushed, id) = 0
                  /\ Count(popped, id) = 0
                  /\ Holders(id) = {}
                  /\ getJobStatusHandler(jobs, "GET", id, TRUE).code = 200
                  /\ getJobStatusHandler(jobs, "GET", id, TRUE).status = "QUEUED"
            /\ (id \in DOMAIN jobs /\ Occurs(pushed, id) = 0) => resp[n].code = 503

\* the first submission was answered 503 and a worker has since finalized the second
C9_Witness ==
    /\ Len(resp) = 2
    /\ resp[1].code = 503
    /\ resp[2].code = 202
    /\ \E c \in calls : c[1] = resp[2].jobID /\ c[2] \in Terminal

\* C10: a submission whose insert failed is answered 500, and its id has no record in
\* the store and no message; an id without a record was never answered 202.
C10_FailedInsertLeavesNothing ==
    \A n \in 1..Len(resp) :
        LET id == resp[n].jobID
        IN  /\ resp[n].at = "insert" =>
                  /\ resp[n].code = 500
                  /\ id \notin DOMAIN jobs
                  /\ id \notin QueueJobs
                  /\ Occurs(pushed, id) = 0
                  /\ getJobStatusHandler(jobs, "GET", id, TRUE).code = 404
            /\ (id # <<>> /\ id \notin DOMAIN jobs) => resp[n].code = 500

\* the insert of the first submission failed; the upload is left on disk and a
\* second submission has been accepted since
C10_Witness ==
    /\ Len(resp) = 2
    /\ resp[1].at = "insert"
    /\ \E path \in DOMAIN disk : path[9] = resp[1].jobID[1]
    /\ resp[2].code = 202

\* C11: a posted form with a file whose action is not one of grayscale, resize, crop
\* is answered 400 and changes nothing else: no file, no record, no message, no
\* request in progress.
C11_UnknownActionRejected ==
    [][\A h \in Handlers : \A req \in Requests :
          (/\ req.method = "POST" /\ req.parsed /\ req.image
           /\ req.action \notin allowedActions
           /\ SubmitUpload(h, req)) =>
              /\ resp' = Append(resp, [code |-> 400, jobID |-> <<>>, at |-> "action"])
              /\ api' = [api EXCEPT ![h] = ApiDone]
              /\ UNCHANGED <<jobs, queue, disk, pushed>>]_vars

\* how many steps of processTask and startWorker a worker at pc has before it is
\* at its pop again, at most
Rank(pc) ==
    CASE pc = "pop" -> 0
      [] pc = "cleanup" -> 1
      [] pc \in {"complete", "fail"} -> 2
      [] pc = "encode" -> 3
      [] pc = "work" -> 4
      [] pc = "start" -> 5
      [] OTHER -> 6

\* C12: a worker that has taken a message off the queue is, whatever becomes of the
\* task, eventually back at the pop of its loop: while it is not at the pop it always
\* has a step to take, and every step it takes brings it nearer to the pop. Under the
\* weak fairness of the worker's loop in NoCrashSpec this is (pc # "pop") ~> (pc = "pop").
C12_WorkerReturnsToPop ==
    /\ [](\A w \in Workers : wk[w].pc # "pop" => Rank(wk[w].pc) < 6 /\ ENABLED WorkerAny(w))
    /\ [][\A w \in Workers :
            (wk'[w] # wk[w] /\ wk[w].pc # "pop") => Rank(wk'[w].pc) < Rank(wk[w].pc)]_vars

\* C13: a worker goes on past a store transition only once the store has applied it
\* (a failed call is repeated until it succeeds): while it processes the image the
\* job is PROCESSING in the store, and when it cleans up the job is COMPLETED or FAILED.
C13_FailedUpdateRetried ==
    \A w \in Workers :
        /\ wk[w].pc \in {"work", "encode", "complete", "fail"} =>
               /\ wk[w].jobID \in DOMAIN jobs
               /\ jobs[wk[w].jobID].status = "PROCESSING"
        /\ wk[w].pc = "cleanup" =>
               /\ wk[w].jobID \in DOMAIN jobs
               /\ jobs[wk[w].jobID].status \in Terminal

\* C14: a step in which a failure happens while a worker waits at the pop of its loop
\* and nothing else moves (no handler, no other worker) leaves that worker at the pop and
\* changes no job record, no message of the queue, no count of popped messages, no file
\* and no answer; and however many pops have failed before, a worker at the pop takes the
\* head of a non-empty queue.
C14_PopErrorChangesNothing ==
    /\ [](\A w \in Workers : (wk[w].pc = "pop" /\ queue # <<>>) => ENABLED Pop(w))
    /\ [][\A w \in Workers :
            (/\ wk[w].pc = "pop"
             /\ faults' > faults
             /\ api' = api
             /\ \A v \in Workers \ {w} : wk'[v] = wk[v]) =>
                /\ wk'[w] = wk[w]
                /\ jobs' = jobs
                /\ queue' = queue
                /\ popped' = popped
                /\ disk' = disk
                /\ resp' = resp
                /\ calls' = calls]_vars

\* three failures have happened and all of them were failed pops (every submission was
\* answered 202, no handler is under way, no update was issued, no worker went past the
\* start of a message), so one worker's pop failed at least twice in a row; after them
\* a worker has popped a message
C14_Witness ==
    /\ faults >= 3
    /\ calls = {}
    /\ Len(resp) > 0
    /\ \A n \in 1..Len(resp) : resp[n].code = 202
    /\ \A h \in Handlers : api[h].pc \in {"idle", "done"}
    /\ \A w \in Workers : wk[w].pc \in {"pop", "start"}
    /\ \E w \in Workers : wk[w].pc = "start"

\* C15: updatePGStatus called for a job that is COMPLETED or FAILED in the store
\* leaves the status and the result field of that job as they are.
C15_TerminalTransitionRejected ==
    [][\A jobID \in StoreIds, status \in {"PROCESSING", "COMPLETED", "FAILED"},
          resultData \in StoreResults :
          (/\ jobID \in DOMAIN jobs
           /\ jobs[jobID].status \in Terminal
           /\ StoreCall(jobID, status, resultData)) =>
              /\ jobs'[jobID].status = jobs[jobID].status
              /\ jobs'[jobID].output_path = jobs[jobID].output_path]_vars

\* the workers that died holding a message whose job they had not finalized
LostTasks ==
    {w \in Workers : /\ wk[w].pc = "crashed"
                     /\ wk[w].task # <<>>
                     /\ \A st \in Terminal : <<MessageJob(wk[w].task), st>> \notin calls}

\* C16: the message of a worker that died before finalizing its job is in no queue and
\* with no other worker, was popped once, and the job is QUEUED or PROCESSING in the
\* store, in every state from the crash on.
C16_CrashLosesTask ==
    \A w \in LostTasks :
        LET id == MessageJob(wk[w].task)
        IN  /\ id \notin QueueJobs
            /\ Holders(id) = {w}
            /\ Count(popped, id) = 1
            /\ Occurs(pushed, id) = 1
            /\ id \in DOMAIN jobs
            /\ jobs[id].status \in {"QUEUED", "PROCESSING"}

\* a worker died while its job was PROCESSING; the other worker has since handled
\* another job to the end and waits at the empty queue
C16_Witness ==
    \E w \in LostTasks :
        /\ jobs[MessageJob(wk[w].task)].status = "PROCESSING"
        /\ queue = <<>>
        /\ \E v \in Workers \ {w} : wk[v].pc = "pop"
        /\ \E other \in DOMAIN jobs : jobs[other].status \in Terminal

\* the ids among those a client may ask about that the store takes for a UUID
UuidIds == {id \in QueryIds : UuidParse(id).ok}

\* C17: to a GET for a job id that the store answers, the download serves the output
\* file exactly when the job is COMPLETED and the file it names is on disk, answers
\* "not ready yet" exactly when the job is QUEUED or PROCESSING, and answers not-found
\* for an unknown id and for a COMPLETED job whose file is missing.
C17_DownloadAnswers ==
    \A id \in UuidIds :
        LET r       == downloadProcessedImageHandler(jobs, disk, "GET", id, TRUE)
            key     == UuidParse(id).val
            known   == key \in DOMAIN jobs
            present == known /\ jobs[key].output_path.String \in DOMAIN disk
        IN  /\ r.code = 200 <=> (known /\ jobs[key].status = "COMPLETED" /\ present)
            /\ r.code = 200 => r.body = disk[jobs[key].output_path.String]
            /\ r.code = 202 <=> (known /\ jobs[key].status \in {"QUEUED", "PROCESSING"})
            /\ (~known \/ (jobs[key].status = "COMPLETED" /\ ~present)) => r.code = 404

\* the values a response body carries under a key
ValuesOf(body, key) == {body[i].v : i \in {j \in 1..Len(body) : body[j].k = key}}

\* C18: to a GET for any job id the status query answers 404 when no record has that
\* id and otherwise 200 with the stored status; the body carries a download_url exactly
\* when that status is COMPLETED and an error_message, the stored diagnostic, exactly
\* when it is FAILED.
C18_StatusAnswers ==
    \A id \in QueryIds \ {<<>>} :
        LET r    == getJobStatusHandler(jobs, "GET", id, TRUE)
            keys == {key \in DOMAIN jobs : UuidParse(id).ok /\ UuidParse(id).val = key}
        IN  /\ r.code = 404 <=> keys = {}
            /\ \A key \in keys :
                  /\ r.code = 200
                  /\ ValuesOf(r.body, "job_id") = {id}
                  /\ ValuesOf(r.body, "status") = {<<jobs[key].status>>}
                  /\ ValuesOf(r.body, "download_url") # {} <=> jobs[key].status = "COMPLETED"
                  /\ ValuesOf(r.body, "error_message") # {} <=> jobs[key].status = "FAILED"
                  /\ jobs[key].status = "FAILED" =>
                        ValuesOf(r.body, "error_message") = {jobs[key].output_path.String}

\* the job ids of the submissions answered 202
Accepted == {resp[n].jobID : n \in {m \in 1..Len(resp) : resp[m].code = 202}}

\* the files of a stored job: its upload and the output a worker writes for it
FilesOf(id) == {jobs[id].input_path, outputPathOf(id, jobs[id].action)}

\* two accepted submissions have different ids, input paths and output paths
DistinctJobs ==
    /\ Cardinality(Accepted) = Cardinality({m \in 1..Len(resp) : resp[m].code = 202})
    /\ \A id \in Accepted : \A other \in Accepted \ {id} :
          /\ jobs[id].input_path # jobs[other].input_path
          /\ outputPathOf(id, jobs[id].action) # outputPathOf(other, jobs[other].action)
          /\ FilesOf(id) \cap FilesOf(other) = {}

\* the jobs worker w is on in a step: that of the message it holds before or after it
StepJobs(w) == {MessageJob(t) : t \in {wk[w].task, wk'[w].task} \ {<<>>}}

\* C19: in every state the submissions accepted so far have pairwise different ids,
\* input paths and output paths, and a step of a worker on one job (any step in
\* which that worker moves) changes neither the record nor the files of any other job.
C19_JobsIndependent ==
    /\ []DistinctJobs
    /\ [][\A w \in Workers :
            wk'[w] # wk[w] =>
                \A other \in DOMAIN jobs \ StepJobs(w) :
                    /\ other \in DOMAIN jobs'
                    /\ jobs'[other] = jobs[other]
                    /\ \A f \in FilesOf(other) :
                          /\ f \in DOMAIN disk <=> f \in DOMAIN disk'
                          /\ f \in DOMAIN disk => disk'[f] = disk[f]]_vars

\* two submissions of the same file with the same action and params were accepted and
\* both are COMPLETED, each with its own output on disk
C19_Witness ==
    /\ Cardinality(Accepted) = 2
    /\ \A id \in Accepted :
          /\ jobs[id].status = "COMPLETED"
          /\ jobs[id].action = Str_grayscale
          /\ Base(jobs[id].input_path) = id \o <<"_", "f">>
          /\ HoldsArtifact(id)

\* C20: applyCrop accepts x0,y0,x1,y1 on an image of width W and height H exactly
\* when 0 <= x0 < x1 <= W and 0 <= y0 < y1 <= H; a refusal yields no image and the
\* worker writes no output; an accepted crop is (x1-x0) x (y1-y0) at origin (0,0) and
\* its pixel (x,y) is the pixel (x0+x, y0+y) of the source, counted from the
\* source's top-left corner.
C20_CropAccepts ==
    LET img   == disk[wk[1].inputPath].img
        r     == applyCrop(img, wk[1].params)
        c     == CHOOSE t \in CropCoords \X CropCoords \X CropCoords \X CropCoords :
                     CropParams(t) = wk[1].params
        valid == /\ 0 <= c[1] /\ c[1] < c[3] /\ c[3] <= img.w
                 /\ 0 <= c[2] /\ c[2] < c[4] /\ c[4] <= img.h
    IN  /\ r.ok <=> valid
        /\ ~r.ok => r.img = NoImage
        /\ r.ok =>
              /\ r.img.min = <<0, 0>>
              /\ r.img.w = c[3] - c[1]
              /\ r.img.h = c[4] - c[2]
              /\ DOMAIN r.img.pix = (0..(c[3] - c[1] - 1)) \X (0..(c[4] - c[2] - 1))
              /\ \A p \in DOMAIN r.img.pix :
                    r.img.pix[p] = At(img, <<img.min[1] + c[1] + p[1], img.min[2] + c[2] + p[2]>>)
        /\ wk[1].pc = "complete" =>
              /\ valid
              /\ disk[wk[1].outputPath] = Decodable(JpegOf(r.img))
        /\ wk[1].pc = "fail" =>
              /\ ~valid
              /\ outputPathOf(wk[1].jobID, wk[1].action) \notin DOMAIN disk

\* a string of one or more decimal digits, the way a client writes an unsigned integer
IsNumeral(s) == Len(s) > 0 /\ \A i \in 1..Len(s) : IsDigit(s[i])

\* the positions of an 'x' that has a numeral on either side, all of params taken
NumeralPairs(params) ==
    {k \in 1..Len(params) :
        /\ params[k] = "x"
        /\ IsNumeral(SubSeq(params, 1, k - 1))
        /\ IsNumeral(SubSeq(params, k + 1, Len(params)))}

\* applyResize answers as a resize to w x h whenever params is two positive unsigned
\* integers w and h around one 'x' (each at most 2^32 - 1 if limited), and with a
\* validation error and no image otherwise; the worker writes the w x h output in
\* the first case, unless jpeg.Encode refuses the size, and no output in the second.
\* A resize to w x h that resize.Resize does not return from, which happens only for
\* a dimension above 65536, is requested without a validation error all the same
ResizeAnswers(limited) ==
    LET img    == disk[wk[1].inputPath].img
        params == wk[1].params
        r      == applyResize(img, params)
        ks     == NumeralPairs(params)
        k      == CHOOSE i \in ks : TRUE
        a      == SubSeq(params, 1, k - 1)
        b      == SubSeq(params, k + 1, Len(params))
        valid  == /\ ks # {}
                  /\ \E i \in 1..Len(a) : a[i] # "0"
                  /\ \E i \in 1..Len(b) : b[i] # "0"
                  /\ limited => /\ NumeralLE(Significant(a), MaxUint32)
                                /\ NumeralLE(Significant(b), MaxUint32)
    IN  /\ ~valid =>
              /\ ~r.ok
              /\ ~r.panics
              /\ r.img = NoImage
              /\ r.err # <<>>
        /\ valid =>
              /\ r.err = <<>>
              /\ r.panics => \/ ~NumeralLE(Significant(a), JpegLimit)
                             \/ ~NumeralLE(Significant(b), JpegLimit)
              /\ ~r.panics =>
                    /\ r.ok
                    /\ r.img.w = DecimalValue(a)
                    /\ r.img.h = DecimalValue(b)
        /\ wk[1].pc = "crashed" =>
              /\ valid
              /\ r.panics
              /\ outputPathOf(wk[1].jobID, wk[1].action) \notin DOMAIN disk
        /\ wk[1].pc = "encode" =>
              /\ valid
              /\ wk[1].img = r.img
        /\ wk[1].pc = "complete" =>
              /\ valid
              /\ jpegEncodes(r.img)
              /\ disk[wk[1].outputPath] = Decodable(JpegOf(r.img))
        /\ (wk[1].pc = "fail" /\ wk[1].failedAt = "save") =>
              /\ valid
              /\ ~jpegEncodes(r.img)
              /\ disk[outputPathOf(wk[1].jobID, wk[1].action)] = Undecodable
        /\ (wk[1].pc = "fail" /\ wk[1].failedAt # "save") =>
              /\ ~valid
              /\ wk[1].failedAt = "transform"
              /\ wk[1].processErr = <<"error during image processing (">> \o wk[1].action
                                        \o <<" with params '">> \o params \o <<"'): ">> \o r.err
              /\ outputPathOf(wk[1].jobID, wk[1].action) \notin DOMAIN disk

\* C21 as stated: applyResize fails with a validation error for every params that is
\* not exactly two unsigned integers separated by 'x' or in which either integer is
\* zero, and for every pair of positive integers w, h it requests an output of
\* exactly w x h.
C21_ResizeAnyPositive == ResizeAnswers(FALSE)

\* C21, amended: applyResize fails with a validation error for every params that is
\* not exactly two unsigned integers separated by 'x', or in which either integer is
\* zero or above 2^32 - 1, and for every pair of positive integers w, h up to
\* 2^32 - 1 it requests an output of exactly w x h.
C21_ResizeUpTo32Bits == ResizeAnswers(TRUE)

\* a zero-padded width was accepted and the worker wrote a 3 x 1 output
C21_Witness ==
    /\ wk[1].pc = "complete"
    /\ wk[1].params = <<"0", "3", "x", "1">>
    /\ disk[wk[1].outputPath].img.w = 3
    /\ disk[wk[1].outputPath].img.h = 1

\* the jobs whose message was given to RPush before that of job id
PushedBefore(id) ==
    {pushed[k] : k \in {m \in 1..Len(pushed) : \E n \in (m + 1)..Len(pushed) : pushed[n] = id}}

\* C22: with a single worker, the message the worker pops is the oldest of the queue,
\* and by then every job pushed earlier was popped and had its terminal update
\* (COMPLETED or FAILED) issued; and when a job moves to PROCESSING every job pushed
\* earlier had its PROCESSING update issued before.
C22_SingleWorkerFifo ==
    [][/\ (wk'[1] # wk[1] /\ wk'[1].pc = "start") =>
              /\ wk'[1].task = Head(queue)
              /\ \A i \in PushedBefore(MessageJob(wk'[1].task)) :
                    /\ Count(popped, i) >= 1
                    /\ \E s \in Terminal : <<i, s>> \in calls
       /\ \A j \in DOMAIN jobs :
              (jobs[j].status # "PROCESSING" /\ jobs'[j].status = "PROCESSING") =>
                  \A i \in PushedBefore(j) :
                      /\ <<i, "PROCESSING">> \in calls
                      /\ \E s \in Terminal : <<i, s>> \in calls]_vars

\* two messages were waiting in the queue together, and now the first job is
\* COMPLETED and the second PROCESSING in the hands of the worker
C22_Witness ==
    /\ Cardinality(Accepted) = 2
    /\ wk[1].pc = "work"
    /\ \A i \in PushedBefore(wk[1].jobID) :
          /\ jobs[i].status = "COMPLETED"
          /\ <<i, "PROCESSING">> \in calls
    /\ PushedBefore(wk[1].jobID) # {}
    /\ jobs[wk[1].jobID].status = "PROCESSING"

\* C23: the four fields a worker parsed out of the message it holds (job id, input
\* path, action, params) are the four fields submission encoded into it, which are
\* those it stored in the row of the job.
C23_MessageRoundTrip ==
    \A w \in Workers :
        wk[w].pc \in {"work", "encode", "complete", "fail", "cleanup"} =>
            \E id \in DOMAIN jobs :
                /\ wk[w].task = jobData(id, jobs[id].input_path, jobs[id].action, jobs[id].params)
                /\ wk[w].jobID = id
                /\ wk[w].inputPath = jobs[id].input_path
                /\ wk[w].action = jobs[id].action
                /\ wk[w].params = jobs[id].params

\* C24: a step in which a worker's os.Remove of the input fails, after the COMPLETED
\* update or after the FAILED update, changes no row of the store (status and result
\* field stay), no file, nothing of the queue, and leaves the worker at its next
\* BLPop.
C24_RemoveFailureOnlyLogged ==
    [][\A w \in Workers :
          (wk[w].pc = "cleanup" /\ wk'[w] # wk[w] /\ wk'[w].pc # "crashed" /\ faults' # faults) =>
              /\ jobs' = jobs
              /\ disk' = disk
              /\ queue' = queue
              /\ calls' = calls
              /\ wk'[w] = WorkerIdle
              /\ WorkerIdle.pc = "pop"]_vars

\* the removal of the first job's input failed after its COMPLETED update, and the
\* worker has gone on to the second job
C24_Witness ==
    /\ faults = 1
    /\ wk[1].pc = "work"
    /\ PushedBefore(wk[1].jobID) # {}
    /\ \A i \in PushedBefore(wk[1].jobID) :
          /\ jobs[i].status = "COMPLETED"
          /\ jobs[i].action = Str_grayscale
          /\ Base(jobs[i].input_path) = i \o <<"_", "f">>
          /\ jobs[i].input_path \in DOMAIN disk
          /\ jobs[i].output_path.String \in DOMAIN disk

\* the cases of the switch of processImage
dispatched == {Str_grayscale, Str_resize, Str_crop}

\* C25: every action submitJobHandler accepted and stored is a case of the switch of
\* processImage, and no stored job is FAILED with the diagnostic of the default case.
C25_ActionsAgree ==
    \A id \in DOMAIN jobs :
        /\ jobs[id].action \in dispatched
        /\ jobs[id].status = "FAILED" =>
              \A i \in 1..Len(jobs[id].output_path.String) :
                  jobs[id].output_path.String[i] # "unknown image processing action: "

\* C26: whenever a worker's os.Remove takes the input of the job in its hands off
\* the disk, the store shows that job as COMPLETED or FAILED; this also when store
\* updates of the worker have failed.
C26_DeletesOnlyFinalized ==
    [][\A w \in Workers :
          (/\ wk[w].pc = "cleanup"
           /\ wk'[w] # wk[w]
           /\ wk[w].inputPath \in DOMAIN disk
           /\ wk[w].inputPath \notin DOMAIN disk') =>
              /\ wk[w].jobID \in DOMAIN jobs'
              /\ jobs'[wk[w].jobID].status \in Terminal]_vars

\* the positions of a body at which the brace b stands
BracesAt(body, b) == {i \in 1..Len(body) : body[i] = Brace(b)}

\* C27: for every stored job, whatever its status, the body getJobStatusHandler
\* builds is one object: it opens with its only opening brace and ends with its only
\* closing brace.
C27_BodyWellFormed ==
    \A id \in DOMAIN jobs :
        LET body == getJobStatusHandler(jobs, "GET", id, TRUE).body
        IN  /\ BracesAt(body, "{") = {1}
            /\ BracesAt(body, "}") = {Len(body)}

====
